---- MODULE Spec2Model ----
(***************************************************************************)
(* Model of obsidian-agent-comments: the offline-first synchronization     *)
(* core (OfflineAwareBackend), its outbox, the anchor index, the anchor    *)
(* resolver and the WebSocket client (WebSocketBackend).                   *)
(*                                                                         *)
(* JavaScript runs handlers to their next await without interruption, so   *)
(* every action below is one such run: from a call (or the resumption of   *)
(* an await) up to the next await or the return.                           *)
(***************************************************************************)
EXTENDS Integers, Sequences, FiniteSets, TLC

(***************************************************************************)
(* Bounds of the model                                                     *)
(***************************************************************************)
MaxThreads == 3      \* threads in the in-memory set
MaxLocalIds == 2     \* thread ids generateId() hands out
MaxMsgs == 2         \* messages in one thread
MaxLocalMsgIds == 2  \* message ids generateId() hands out
MaxCalls == 2        \* asynchronous calls in flight at once
MaxOutbox == 2       \* outbox entries
MaxClock == 1        \* readings of the clock
MaxTextLen == 5      \* characters of a document
MaxStarted == 3      \* calls of the plugin and pushed events in one run
MaxSockets == 2      \* WebSocket objects alive at once
MaxTimers == 2       \* reconnect timers pending at once
MaxRequests == 2     \* requests of the WebSocket client in one run
MaxSaves == 3        \* save and saveImmediate calls of SidecarStorage in one run

(***************************************************************************)
(* Program constants                                                       *)
(***************************************************************************)
MAX_RETRY_COUNT == 3
INITIAL_RECONNECT_MS == 1000
MAX_RECONNECT_MS == 30000

Docs == {"a.md", "b.md"}
NoFile == "null"

\* The documents' text when the model starts (one character per element).
InitText == [d \in Docs |-> IF d = "a.md" THEN <<"a", "b", "a", "b">> ELSE <<"b", "a">>]

VARIABLES
    activeFile,     \* OfflineAwareBackend.activeFile
    threads,        \* OfflineAwareBackend.threads
    anchorIndex,    \* OfflineAwareBackend.anchorIndex: [ids, tree]
    outbox,         \* OfflineAwareBackend.outbox
    draining,       \* OfflineAwareBackend.draining
    drain,          \* the locals of the running drainOutbox loop
    calls,          \* asynchronous calls suspended at an await
    socket,         \* the wrapped adapter's socket: none, open, or connecting for connect() (core) or its reconnect timer (timer)
    wrappedStatus,  \* wrapped.connectionStatus
    persisted,      \* the sidecar file of each document (the vault)
    text,           \* the text of each document (the vault)
    remoteHas,      \* local thread ids whose createThread the remote acknowledged
    nextId,         \* next thread id of generateId()
    nextMsgId,      \* next message id of generateId()
    now,            \* the clock nowISO() reads
    cbCount,        \* per thread id: onNewThread callbacks fired since the last load
    ret,            \* the call that returned in the last step, if any
    evt,            \* what the last step showed: callbacks, remote calls
    started,        \* calls of the plugin and pushed events so far
    wsb,            \* the fields of a WebSocketBackend, its sockets, timers and requests
    sto             \* the debounce timers of a SidecarStorage and the promises of its save calls

vars == <<activeFile, threads, anchorIndex, outbox, draining, drain, calls,
          socket, wrappedStatus, persisted, text, remoteHas, nextId,
          nextMsgId, now, cbCount, ret, evt, started, wsb, sto>>

\* The variables of the offline-aware backend, the vault and the plugin
OfflineVars == <<activeFile, threads, anchorIndex, outbox, draining, drain, calls,
                 socket, wrappedStatus, persisted, text, remoteHas, nextId,
                 nextMsgId, now, cbCount, ret, evt, started>>

(***************************************************************************)
(* Sequences of characters                                                 *)
(***************************************************************************)
Min(a, b) == IF a < b THEN a ELSE b
Max(a, b) == IF a > b THEN a ELSE b

\* String.prototype.slice(from, to) for 0-based offsets, negative offsets
\* counting from the end as JavaScript does.
Slice(s, from, to) ==
    LET n == Len(s)
        f == IF from < 0 THEN Max(n + from, 0) ELSE Min(from, n)
        t == IF to < 0 THEN Max(n + to, 0) ELSE Min(to, n)
    IN  IF f >= t THEN <<>> ELSE SubSeq(s, f + 1, t)

\* needle occurs in hay at 0-based offset i
OccursAt(needle, hay, i) ==
    /\ i >= 0
    /\ i + Len(needle) <= Len(hay)
    /\ SubSeq(hay, i + 1, i + Len(needle)) = needle

\* String.prototype.indexOf(needle, from): -1 when absent
IndexOfFrom(hay, needle, from) ==
    LET f == Min(Max(from, 0), Len(hay))
        hits == {i \in f..(Len(hay) - Len(needle)) : OccursAt(needle, hay, i)}
    IN  IF hits = {} THEN -1 ELSE CHOOSE i \in hits : \A j \in hits : i <= j

IndexOf(hay, needle) == IndexOfFrom(hay, needle, 0)

Includes(hay, needle) == IndexOf(hay, needle) # -1

Abs(x) == IF x < 0 THEN -x ELSE x

(***************************************************************************)
(* Data model (models/thread.ts)                                           *)
(***************************************************************************)
NoHeading == <<>>

NoSuggestion == [originalText |-> <<>>, replacementText |-> <<>>, status |-> "none"]

\* createSuggestion: a new suggestion is pending
createSuggestion(orig, repl) ==
    [originalText |-> orig, replacementText |-> repl, status |-> "pending"]

\* createMessage: the fields of a ThreadMessage the core reads
createMessage(id, sugg) == [id |-> id, suggestion |-> sugg]

\* createThread of models/thread.ts
createThreadModel(id, doc, anchor, first, t) ==
    [id |-> id, documentId |-> doc, anchor |-> anchor, status |-> "open",
     messages |-> first, updatedAt |-> t]

MkAnchor(txt, s, e, h) ==
    [anchorText |-> txt, startOffset |-> s, endOffset |-> e, sectionHeading |-> h]

\* The anchor of an editor selection [s, e) of text t
SelectionAnchor(t, s, e) == MkAnchor(SubSeq(t, s + 1, e), s, e, NoHeading)

\* Ids of generateId(): the n-th local thread id and message id; the ids the
\* remote uses for what it pushes; the id of the thread an earlier session
\* left in the vault.
LocalId(n) == <<"t", n>>
MsgId(n) == <<"m", n>>
RemoteThreadId == <<"r", 1>>
SeedThreadId == <<"r", 0>>
HeadThreadId == <<"r", 2>>
TailThreadId == <<"r", 3>>
RemoteMsgId == <<"m", 0>>
AllThreadIds ==
    {LocalId(n) : n \in 1..MaxLocalIds}
    \cup {RemoteThreadId, SeedThreadId, HeadThreadId, TailThreadId}
AllMsgIds == {MsgId(n) : n \in 1..MaxLocalMsgIds} \cup {RemoteMsgId}

(***************************************************************************)
(* AnchorIndex (storage/anchor.ts)                                         *)
(***************************************************************************)
\* threadMap.set(thread.id, thread) in array order: for each id the map ends
\* up holding the last object with that id. The map is modelled by the
\* positions (in the thread array) of the objects it holds.
MapPositions(ths, from) ==
    {i \in from : \A j \in from : j > i => ths[j].id # ths[i].id}

\* The intervals tree.insert([startOffset, endOffset], thread.id) adds for a
\* set of thread objects: an empty or inverted range is not indexed
IntervalsOf(objs) ==
    {<<t.anchor.startOffset, t.anchor.endOffset, t.id>> :
        t \in {u \in objs : u.anchor.startOffset < u.anchor.endOffset}}

\* AnchorIndex.build over the objects at positions `from` of ths. `gone`
\* holds the objects of the map that are no longer in the thread array
\* (removed from the array behind the index's back); a build holds none.
BuildFrom(ths, from) ==
    [map  |-> MapPositions(ths, from),
     tree |-> IntervalsOf({ths[i] : i \in from}),
     gone |-> {}]

build(ths) == BuildFrom(ths, DOMAIN ths)

\* AnchorIndex.query(offset): ids of the indexed intervals containing offset
query(idx, offset) == {iv[3] : iv \in {v \in idx.tree : v[1] <= offset /\ offset <= v[2]}}

\* A shift whose adjusted end may precede the start
ShiftAnchorUnclamped(anchor, changeFrom, changeTo, delta) ==
    IF anchor.startOffset >= changeTo
    THEN [anchor EXCEPT !.startOffset = @ + delta, !.endOffset = @ + delta]
    ELSE IF anchor.startOffset >= changeFrom /\ anchor.endOffset <= changeTo
    THEN anchor
    ELSE IF anchor.endOffset > changeFrom
    THEN [anchor EXCEPT !.endOffset = @ + delta]
    ELSE anchor

\* The shift of one anchor in applyOffsetShift
ShiftAnchor(anchor, changeFrom, changeTo, delta) ==
    IF anchor.startOffset >= changeTo
    THEN [anchor EXCEPT !.startOffset = @ + delta, !.endOffset = @ + delta]
    ELSE IF anchor.startOffset >= changeFrom /\ anchor.endOffset <= changeTo
    THEN anchor
    ELSE IF anchor.endOffset > changeFrom
    THEN [anchor EXCEPT !.endOffset = Max(anchor.startOffset, @ + delta)]
    ELSE anchor

\* AnchorIndex.applyOffsetShift: the thread objects of the map are shifted in
\* place; the result is the thread array after the shift.
applyOffsetShift(ths, idx, changeFrom, changeTo, insertLength) ==
    LET delta == insertLength - (changeTo - changeFrom)
    IN  IF delta = 0 THEN ths
        ELSE [i \in DOMAIN ths |->
                IF i \in idx.map
                THEN [ths[i] EXCEPT !.anchor = ShiftAnchor(@, changeFrom, changeTo, delta)]
                ELSE ths[i]]

\* An index that keeps its tree as it was when the threads are shifted
IndexWithoutRebuild(ths, idx, changeFrom, changeTo, insertLength) == idx

\* The index after applyOffsetShift: rebuilt from the map's own threads
IndexAfterShift(ths, idx, changeFrom, changeTo, insertLength) ==
    LET delta == insertLength - (changeTo - changeFrom)
        gone == {[g EXCEPT !.anchor = ShiftAnchor(@, changeFrom, changeTo, delta)] :
                    g \in idx.gone}
        live == BuildFrom(applyOffsetShift(ths, idx, changeFrom, changeTo, insertLength),
                          idx.map)
    IN  IF delta = 0 THEN idx
        ELSE [live EXCEPT !.tree = @ \cup IntervalsOf(gone), !.gone = gone]

(***************************************************************************)
(* Anchor resolver (storage/anchor.ts)                                     *)
(***************************************************************************)
NotFound == [method |-> "none", startOffset |-> -1, endOffset |-> -1]

\* A search that returns the first occurrence, whatever the preferred offset
findFirstMatch(needle, haystack, preferredOffset) ==
    IF Len(needle) = 0 THEN -1 ELSE IndexOf(haystack, needle)

\* findClosestMatch: the first occurrence at minimal distance
findClosestMatch(needle, haystack, preferredOffset) ==
    IF Len(needle) = 0 THEN -1
    ELSE LET hits == {i \in 0..(Len(haystack) - Len(needle)) : OccursAt(needle, haystack, i)}
         IN  IF hits = {} THEN -1
             ELSE CHOOSE i \in hits :
                    \A j \in hits :
                        \/ Abs(i - preferredOffset) < Abs(j - preferredOffset)
                        \/ (Abs(i - preferredOffset) = Abs(j - preferredOffset) /\ i <= j)

\* sectionHeading.match(/^#+/)?.[0]?.length ?? 1
RECURSIVE LeadingHashes(_)
LeadingHashes(s) ==
    IF s # <<>> /\ Head(s) = "#" THEN 1 + LeadingHashes(Tail(s)) ELSE 0

headingLevel(h) == IF LeadingHashes(h) = 0 THEN 1 ELSE LeadingHashes(h)

\* /^#{1,level} /m matches s at 0-based offset i
HeadingPatternAt(s, i, level) ==
    /\ (i = 0 \/ s[i] = "\n")
    /\ \E k \in 1..level :
          /\ i + k + 1 <= Len(s)
          /\ \A j \in 1..k : s[i + j] = "#"
          /\ s[i + k + 1] = " "

\* headingPattern.exec(s)?.index, or -1
NextHeadingIndex(s, level) ==
    LET hits == {i \in 0..(Len(s) - 1) : HeadingPatternAt(s, i, level)}
    IN  IF hits = {} THEN -1 ELSE CHOOSE i \in hits : \A j \in hits : i <= j

resolveViaHeading(anchorText, documentContent, sectionHeading) ==
    LET headingIdx == IndexOf(documentContent, sectionHeading)
        afterHeading == Slice(documentContent, headingIdx + Len(sectionHeading),
                              Len(documentContent))
        nextIdx == NextHeadingIndex(afterHeading, headingLevel(sectionHeading))
        sectionEnd == IF nextIdx # -1
                      THEN headingIdx + Len(sectionHeading) + nextIdx
                      ELSE Len(documentContent)
        sectionContent == Slice(documentContent, headingIdx, sectionEnd)
        localIdx == IndexOf(sectionContent, anchorText)
    IN  IF headingIdx = -1 THEN -1
        ELSE IF localIdx = -1 THEN -1
        ELSE headingIdx + localIdx

\* A resolver that trusts in-range offsets without comparing the text
resolveAnchorByOffsets(anchor, documentContent) ==
    LET s == anchor.startOffset
        e == anchor.endOffset
        txt == anchor.anchorText
        textResult == findClosestMatch(txt, documentContent, s)
    IN  IF Len(documentContent) = 0 THEN NotFound
        ELSE IF s >= 0 /\ e <= Len(documentContent) /\ s < e
        THEN [method |-> "exact", startOffset |-> s, endOffset |-> e]
        ELSE IF textResult # -1
        THEN [method |-> "text-search", startOffset |-> textResult,
              endOffset |-> textResult + Len(txt)]
        ELSE NotFound

\* A resolver without the exact-offset layer: text search, then heading
resolveAnchorBySearch(anchor, documentContent) ==
    LET txt == anchor.anchorText
        textResult == findClosestMatch(txt, documentContent, anchor.startOffset)
        headingResult == resolveViaHeading(txt, documentContent, anchor.sectionHeading)
    IN  IF Len(documentContent) = 0 THEN NotFound
        ELSE IF textResult # -1
        THEN [method |-> "text-search", startOffset |-> textResult,
              endOffset |-> textResult + Len(txt)]
        ELSE IF anchor.sectionHeading # NoHeading /\ headingResult # -1
        THEN [method |-> "heading-fallback", startOffset |-> headingResult,
              endOffset |-> headingResult + Len(txt)]
        ELSE NotFound

resolveAnchor(anchor, documentContent) ==
    LET s == anchor.startOffset
        e == anchor.endOffset
        txt == anchor.anchorText
        textResult == findClosestMatch(txt, documentContent, s)
        headingResult == resolveViaHeading(txt, documentContent, anchor.sectionHeading)
    IN  IF Len(documentContent) = 0 THEN NotFound
        ELSE IF s >= 0 /\ e <= Len(documentContent) /\ s < e
                /\ Slice(documentContent, s, e) = txt
        THEN [method |-> "exact", startOffset |-> s, endOffset |-> e]
        ELSE IF textResult # -1
        THEN [method |-> "text-search", startOffset |-> textResult,
              endOffset |-> textResult + Len(txt)]
        ELSE IF anchor.sectionHeading # NoHeading /\ headingResult # -1
        THEN [method |-> "heading-fallback", startOffset |-> headingResult,
              endOffset |-> headingResult + Len(txt)]
        ELSE NotFound

(***************************************************************************)
(* State of the synchronization core (OfflineAwareBackend,                 *)
(* backend/protocol.ts)                                                    *)
(***************************************************************************)
Slots == 1..MaxCalls

MutatingOps == {"createThread", "addMessage", "resolveThread", "reopenThread",
                "acceptSuggestion", "rejectSuggestion"}

NoId == <<>>

\* A call suspended at an await: its operation, where it waits (pc), the
\* thread and message it names (tid, mid), the positions of the thread and
\* message objects it holds (ti, mi; stale: the objects belong to a thread
\* array that setActiveDocument has replaced since), the document text it
\* read (content), the replacement it computed (span: start, end, inserted
\* length), thread objects it carries (ths), whether the local write
\* it awaits succeeds (ok), and what it has done for the remote so far
\* (conn: the outcome of isConnected(); called: wrapped.<op>() was called).
IdleCall ==
    [op |-> "idle", pc |-> "idle", tid |-> NoId, mid |-> NoId, ti |-> 0, mi |-> 0,
     stale |-> FALSE, content |-> <<>>, span |-> <<>>, ths |-> <<>>, ok |-> TRUE,
     conn |-> "na", called |-> FALSE]

\* The summary of a call at its return: ok (resolved) or err (the error it
\* threw); fwd: wrapped.<op>() resolved; enq: outbox entries it appended.
NoRet ==
    [op |-> "none", ok |-> TRUE, err |-> "", tid |-> NoId, mid |-> NoId,
     conn |-> "na", called |-> FALSE, fwd |-> FALSE, enq |-> 0]

Returned(c, ok, err, fwd, enq) ==
    [op |-> c.op, ok |-> ok, err |-> err, tid |-> c.tid, mid |-> c.mid,
     conn |-> c.conn, called |-> c.called, fwd |-> fwd, enq |-> enq]

\* What one step shows: local callbacks fired (cbs), wrapped calls started
\* (sent), resolved (acked) and rejected (failed), outbox entries dropped
\* after the retry cap (dropped), and the kind of pushed event merged (push).
NoEvt == [cbs |-> {}, sent |-> {}, acked |-> {}, failed |-> {}, dropped |-> {},
          push |-> "none"]

RemoteCall(type, tid, mid, src) == [type |-> type, tid |-> tid, mid |-> mid, src |-> src]

IdleDrain == [pc |-> "idle", entry |-> [type |-> "none", tid |-> NoId, mid |-> NoId, retryCount |-> 0],
              inOutbox |-> FALSE]

HasFreeSlot == \E i \in Slots : calls[i].op = "idle"
FreeSlot == CHOOSE i \in Slots : calls[i].op = "idle" /\ \A j \in Slots : j < i => calls[j].op # "idle"

\* The calls in flight, in the order they started: a call that settles
\* leaves no hole in the slots.
Compact(cs) ==
    LET live == SelectSeq(cs, LAMBDA c : c.op # "idle")
    IN  [j \in Slots |-> IF j <= Len(live) THEN live[j] ELSE IdleCall]

InFlight(ops) == {i \in Slots : calls[i].op \in ops}

\* A new mutating call fits the model's bounds: an outbox slot is left for it.
CanQueue == Len(outbox) + Cardinality(InFlight(MutatingOps)) < MaxOutbox
CanAddThread == Len(threads) + Cardinality(InFlight({"reanchor"})) < MaxThreads

\* OfflineAwareBackend.isConnected
isConnected(status) == status = "connected"

\* OfflineAwareBackend.connectionStatus (the status the core reports)
connectionStatus(status) ==
    IF status \in {"disconnected", "connecting"} THEN "offline" ELSE status

\* An enqueue that appends nothing
enqueueNothing(q, type, tid, mid) == q

\* OfflineAwareBackend.enqueue: the entry's payload names the thread and the
\* message of the operation; for createThread (payload {anchor, firstMessage})
\* tid records the local thread the call created.
enqueue(q, type, tid, mid) ==
    Append(q, [type |-> type, tid |-> tid, mid |-> mid, retryCount |-> 0])

\* storage.saveImmediate(file, threads): the sidecar of file after the write
saveImmediate(store, file, ths, ok) ==
    IF ok THEN [store EXCEPT ![file] = ths] ELSE store

\* A lookup that falls back to the first thread when the id is unknown
FindThreadOrFirst(ths, id) ==
    IF \E i \in DOMAIN ths : ths[i].id = id
    THEN CHOOSE i \in DOMAIN ths : ths[i].id = id /\ \A j \in DOMAIN ths : j < i => ths[j].id # id
    ELSE IF ths = <<>> THEN 0 ELSE 1

\* Array.prototype.find on thread ids: position of the first thread with the
\* id, 0 when there is none
FindThread(ths, id) ==
    IF \E i \in DOMAIN ths : ths[i].id = id
    THEN CHOOSE i \in DOMAIN ths : ths[i].id = id /\ \A j \in DOMAIN ths : j < i => ths[j].id # id
    ELSE 0

FindMessage(msgs, id) ==
    IF \E i \in DOMAIN msgs : msgs[i].id = id
    THEN CHOOSE i \in DOMAIN msgs : msgs[i].id = id /\ \A j \in DOMAIN msgs : j < i => msgs[j].id # id
    ELSE 0

ThreadIds(ths) == {ths[i].id : i \in DOMAIN ths}

(***************************************************************************)
(* WebSocketBackend (backend/websocket.ts)                                 *)
(***************************************************************************)
\* The WebSocket objects the client has created and not yet seen closed, the
\* reconnect timers it has set, and the requests it has been asked to send.
\* A socket is CLOSING from the moment the connection is lost or close() is
\* called until its close event is dispatched, and CLOSED afterwards.
Sockets == 1..MaxSockets
Timers == 1..MaxTimers
Requests == 1..MaxRequests

\* A request before sendRequest: the state of its promise, what settled it,
\* whether its timeout is pending, and the calls of resolve or reject so far
NoRequest == [state |-> "unsent", by |-> "", timer |-> FALSE, settled |-> 0]

\* The fields after construction; lastDelay is the delay of the reconnect
\* timer set last since the last open (0: none), afterDisconnect says that
\* disconnect() was called and connect() has not been called since
InitWs ==
    [ws |-> 0,
     readyState |-> [s \in Sockets |-> "CLOSED"],
     connectionStatus |-> "disconnected",
     reconnectMs |-> INITIAL_RECONNECT_MS,
     reconnectTimer |-> 0,
     timers |-> [t \in Timers |-> 0],
     pendingRequests |-> {},
     intentionalClose |-> FALSE,
     requests |-> [r \in Requests |-> NoRequest],
     lastDelay |-> 0,
     afterDisconnect |-> FALSE]

HasFreeSocket(w) == \E s \in Sockets : w.readyState[s] = "CLOSED"
FreeSocket(w) ==
    CHOOSE s \in Sockets :
        w.readyState[s] = "CLOSED" /\ \A u \in Sockets : u < s => w.readyState[u] # "CLOSED"

HasFreeTimer(w) == \E t \in Timers : w.timers[t] = 0
FreeTimer(w) ==
    CHOOSE t \in Timers : w.timers[t] = 0 /\ \A u \in Timers : u < t => w.timers[u] # 0

\* connect(): nothing when this.ws is open or connecting; otherwise a new
\* WebSocket is created and kept in this.ws
IsConnectedOrConnecting(w) == w.ws # 0 /\ w.readyState[w.ws] \in {"OPEN", "CONNECTING"}

connect(w) ==
    IF IsConnectedOrConnecting(w) THEN w
    ELSE [w EXCEPT !.intentionalClose = FALSE,
                   !.connectionStatus = "connecting",
                   !.ws = FreeSocket(w),
                   !.readyState[FreeSocket(w)] = "CONNECTING"]

\* A backoff that keeps doubling
scheduleReconnectUncapped(w) ==
    IF w.intentionalClose THEN w
    ELSE [w EXCEPT !.reconnectTimer = FreeTimer(w),
                   !.timers[FreeTimer(w)] = w.reconnectMs,
                   !.reconnectMs = w.reconnectMs * 2,
                   !.lastDelay = w.reconnectMs]

\* scheduleReconnect(): a timer with the current delay; the delay doubles up
\* to MAX_RECONNECT_MS
scheduleReconnect(w) ==
    IF w.intentionalClose THEN w
    ELSE [w EXCEPT !.reconnectTimer = FreeTimer(w),
                   !.timers[FreeTimer(w)] = w.reconnectMs,
                   !.reconnectMs = Min(w.reconnectMs * 2, MAX_RECONNECT_MS),
                   !.lastDelay = w.reconnectMs]

\* ws.onopen of socket s
onopen(w, s) ==
    [w EXCEPT !.readyState[s] = "OPEN",
              !.connectionStatus = "connected",
              !.reconnectMs = INITIAL_RECONNECT_MS,
              !.lastDelay = 0]

\* ws.onclose of socket s
onclose(w, s) ==
    LET closed == [w EXCEPT !.ws = 0, !.readyState[s] = "CLOSED"]
    IN  IF ~w.intentionalClose
        THEN scheduleReconnect([closed EXCEPT !.connectionStatus = "connecting"])
        ELSE [closed EXCEPT !.connectionStatus = "disconnected"]

\* pending.resolve / pending.reject: a promise is settled by the first call
resolve(req) ==
    [req EXCEPT !.state = IF @ = "pending" THEN "resolved" ELSE @,
                !.by = IF req.state = "pending" THEN "response" ELSE @,
                !.settled = Min(@ + 1, 2)]

reject(req, by) ==
    [req EXCEPT !.state = IF @ = "pending" THEN "rejected" ELSE @,
                !.by = IF req.state = "pending" THEN by ELSE @,
                !.settled = Min(@ + 1, 2)]

clearTimeout(req) == [req EXCEPT !.timer = FALSE]

\* ws.close()
close(state) == IF state \in {"CONNECTING", "OPEN"} THEN "CLOSING" ELSE state

\* disconnect()
disconnect(w) ==
    [w EXCEPT !.intentionalClose = TRUE,
              !.timers = IF w.reconnectTimer # 0 THEN [@ EXCEPT ![w.reconnectTimer] = 0] ELSE @,
              !.reconnectTimer = 0,
              !.requests = [r \in Requests |->
                              IF r \in w.pendingRequests
                              THEN reject(clearTimeout(w.requests[r]), "disconnect")
                              ELSE w.requests[r]],
              !.pendingRequests = {},
              !.readyState = IF w.ws # 0 THEN [@ EXCEPT ![w.ws] = close(@)] ELSE @,
              !.ws = 0,
              !.connectionStatus = "disconnected",
              !.afterDisconnect = TRUE]

\* sendRequest(): rejected at once when this.ws is not open; otherwise the
\* request is pending with its timeout set (send() does not throw on an open
\* socket)
sendRequest(w, r) ==
    IF w.ws = 0 \/ w.readyState[w.ws] # "OPEN"
    THEN [w EXCEPT !.requests[r] = reject([NoRequest EXCEPT !.state = "pending"],
                                          "not-connected")]
    ELSE [w EXCEPT !.requests[r] = [NoRequest EXCEPT !.state = "pending", !.timer = TRUE],
                   !.pendingRequests = @ \cup {r}]

\* A handler that settles the request and leaves it in the map
handleMessageKeepPending(w, r, type) ==
    IF r \in w.pendingRequests
    THEN [w EXCEPT !.requests[r] = IF type = "error" THEN reject(@, "error") ELSE resolve(@)]
    ELSE w

\* handleMessage() for a valid message that carries requestId r: the pending
\* request is removed, its timeout cleared and its promise settled; a message
\* for no pending request goes to handlePushEvent, which changes no field
handleMessage(w, r, type) ==
    IF r \in w.pendingRequests
    THEN [w EXCEPT !.pendingRequests = @ \ {r},
                   !.requests[r] = IF type = "error"
                                   THEN reject(clearTimeout(@), "error")
                                   ELSE resolve(clearTimeout(@))]
    ELSE w

\* The callback of a request's timeout
requestTimeout(w, r) ==
    [w EXCEPT !.pendingRequests = @ \ {r},
              !.requests[r] = reject(clearTimeout(@), "timeout")]

\* The plugin calls connect()
WsConnect ==
    /\ IsConnectedOrConnecting(wsb) \/ HasFreeSocket(wsb)
    /\ wsb' = [connect(wsb) EXCEPT !.afterDisconnect = FALSE]
    /\ UNCHANGED <<OfflineVars, sto>>

\* The connection of socket s is established
WsOpen(s) ==
    /\ wsb.readyState[s] = "CONNECTING"
    /\ wsb' = onopen(wsb, s)
    /\ UNCHANGED <<OfflineVars, sto>>

\* The connection of socket s fails or is lost; its close event is queued
WsLost(s) ==
    /\ wsb.readyState[s] \in {"CONNECTING", "OPEN"}
    /\ wsb' = [wsb EXCEPT !.readyState[s] = "CLOSING"]
    /\ UNCHANGED <<OfflineVars, sto>>

\* The close event of socket s is dispatched
WsClose(s) ==
    /\ wsb.readyState[s] = "CLOSING"
    /\ wsb.intentionalClose \/ HasFreeTimer(wsb)
    /\ wsb' = onclose(wsb, s)
    /\ UNCHANGED <<OfflineVars, sto>>

\* Reconnect timer t fires: this.reconnectTimer = null; void this.connect()
WsReconnectTimer(t) ==
    LET fired == [wsb EXCEPT !.timers[t] = 0, !.reconnectTimer = 0]
    IN  /\ wsb.timers[t] # 0
        /\ IsConnectedOrConnecting(fired) \/ HasFreeSocket(fired)
        /\ wsb' = connect(fired)
        /\ UNCHANGED <<OfflineVars, sto>>

\* The plugin calls disconnect()
WsDisconnect ==
    /\ wsb' = disconnect(wsb)
    /\ UNCHANGED <<OfflineVars, sto>>

\* One of the six operations calls sendRequest
WsSendRequest(r) ==
    /\ wsb.requests[r].state = "unsent"
    /\ \A q \in Requests : q < r => wsb.requests[q].state # "unsent"
    /\ wsb' = sendRequest(wsb, r)
    /\ UNCHANGED <<OfflineVars, sto>>

\* Open socket s delivers a message of the server that carries the id of a
\* request the server was sent
WsMessage(s, r, type) ==
    /\ wsb.readyState[s] = "OPEN"
    /\ wsb.requests[r].state # "unsent" /\ wsb.requests[r].by # "not-connected"
    /\ wsb' = handleMessage(wsb, r, type)
    /\ UNCHANGED <<OfflineVars, sto>>

\* The timeout of request r fires
WsRequestTimeout(r) ==
    /\ wsb.requests[r].timer
    /\ wsb' = requestTimeout(wsb, r)
    /\ UNCHANGED <<OfflineVars, sto>>

(***************************************************************************)
(* SidecarStorage: the debounced save and saveImmediate of one document    *)
(***************************************************************************)
\* The save and saveImmediate calls of a run, in the order they are made
Saves == 1..MaxSaves

\* saveTimers holds the call whose debounce timer is pending for the path, 0
\* for none; per call its timer, the thread list it was passed, the promise
\* save() returned and the writeFile it awaits; n calls were made, the last
\* of them with the thread list `last`.
InitSto ==
    [saveTimers |-> 0,
     timer |-> [k \in Saves |-> "none"],
     arg |-> [k \in Saves |-> <<>>],
     promise |-> [k \in Saves |-> "none"],
     writing |-> [k \in Saves |-> "no"],
     n |-> 0,
     last |-> <<>>]

\* const existingTimer = this.saveTimers.get(path);
\* if (existingTimer) clearTimeout(existingTimer)
clearExistingTimer(s) ==
    IF s.saveTimers # 0 THEN [s EXCEPT !.timer[s.saveTimers] = "cleared"] ELSE s

\* save(): the pending timer of the path is cleared and a new promise is
\* returned whose timer is set and kept in saveTimers
save(s, ths) ==
    [clearExistingTimer(s) EXCEPT !.n = s.n + 1,
                                  !.timer[s.n + 1] = "pending",
                                  !.arg[s.n + 1] = ths,
                                  !.promise[s.n + 1] = "pending",
                                  !.saveTimers = s.n + 1,
                                  !.last = ths]

\* saveImmediate() up to its writeFile: the pending timer of the path is
\* cleared and removed from saveTimers
cancelPendingSave(s, ths) ==
    [clearExistingTimer(s) EXCEPT !.n = s.n + 1, !.saveTimers = 0, !.last = ths]

\* The timer callback of save call k: the entry of the path is deleted and
\* writeFile is called
timerCallback(s, k, ok) ==
    [s EXCEPT !.timer[k] = "fired",
              !.saveTimers = 0,
              !.writing[k] = IF ok THEN "ok" ELSE "failed"]

\* writeFile(...).then(resolve): the promise of save call k resolves when
\* the write is fulfilled; a rejected write leaves it pending
thenResolve(s, k) ==
    [s EXCEPT !.writing[k] = "no",
              !.promise[k] = IF s.writing[k] = "ok" THEN "resolved" ELSE @]

\* The state after construction, over a vault whose sidecars are store and
\* whose documents hold txt
InitWith(store, txt) ==
    /\ activeFile = NoFile
    /\ threads = <<>>
    /\ anchorIndex = build(<<>>)
    /\ outbox = <<>>
    /\ draining = FALSE
    /\ drain = IdleDrain
    /\ calls = [i \in Slots |-> IdleCall]
    /\ socket = "none"
    /\ wrappedStatus = "disconnected"
    /\ persisted = store
    /\ text = txt
    /\ remoteHas = {}
    /\ nextId = 1
    /\ nextMsgId = 1
    /\ now = 0
    /\ cbCount = [id \in AllThreadIds |-> 0]
    /\ ret = NoRet
    /\ evt = NoEvt
    /\ started = 0
    /\ wsb = InitWs
    /\ sto = InitSto

InitVault(store) == InitWith(store, InitText)

(***************************************************************************)
(* The clock                                                               *)
(***************************************************************************)
Tick ==
    /\ now < MaxClock
    /\ now' = now + 1
    /\ ret' = NoRet
    /\ evt' = NoEvt
    /\ UNCHANGED <<activeFile, threads, anchorIndex, outbox, draining, drain, calls,
                   socket, wrappedStatus, persisted, text, remoteHas, nextId,
                   nextMsgId, cbCount>>

(***************************************************************************)
(* setActiveDocument                                                       *)
(***************************************************************************)
\* this.activeFile = file; the sidecar is read (storage.load never throws)
SetActiveDocumentCall(file) ==
    /\ HasFreeSlot
    /\ activeFile' = file
    /\ calls' = [calls EXCEPT ![FreeSlot] =
                    [IdleCall EXCEPT !.op = "setActiveDocument", !.pc = "load",
                                     !.ths = persisted[file]]]
    /\ ret' = NoRet
    /\ evt' = NoEvt
    /\ UNCHANGED <<threads, anchorIndex, outbox, draining, drain, socket,
                   wrappedStatus, persisted, text, remoteHas, nextId, nextMsgId,
                   now, cbCount>>

\* this.threads = (loaded); this.anchorIndex.build(this.threads). The loaded
\* objects are new ones: calls in flight keep the objects of the old array.
SetActiveDocumentLoaded(i) ==
    /\ calls[i].op = "setActiveDocument" /\ calls[i].pc = "load"
    /\ threads' = calls[i].ths
    /\ anchorIndex' = build(calls[i].ths)
    /\ calls' = Compact([j \in Slots |->
                    IF j = i THEN IdleCall
                    ELSE IF calls[j].op = "acceptSuggestion" /\ ~calls[j].stale
                    THEN [calls[j] EXCEPT !.stale = TRUE, !.ths = <<threads[calls[j].ti]>>]
                    ELSE calls[j]])
    /\ cbCount' = [id \in AllThreadIds |-> 0]
    /\ ret' = Returned(calls[i], TRUE, "", FALSE, 0)
    /\ evt' = NoEvt
    /\ UNCHANGED <<activeFile, outbox, draining, drain, socket, wrappedStatus,
                   persisted, text, remoteHas, nextId, nextMsgId, now>>

(***************************************************************************)
(* The forward-or-queue tail of the six mutating operations                *)
(***************************************************************************)
FreeCall(i) == Compact([calls EXCEPT ![i] = IdleCall])

\* A call throws before its first await: nothing has changed.
Throws(op, tid, mid, err) ==
    /\ ret' = [NoRet EXCEPT !.op = op, !.ok = FALSE, !.err = err, !.tid = tid, !.mid = mid]
    /\ evt' = NoEvt
    /\ UNCHANGED <<activeFile, threads, anchorIndex, outbox, draining, drain, calls,
                   socket, wrappedStatus, persisted, text, remoteHas, nextId,
                   nextMsgId, now, cbCount>>

\* A continuation that queues the operation for the remote although its
\* sidecar write failed
AfterSaveQueueOnFailure(i, type, cbs) ==
    LET c == calls[i]
    IN  IF ~c.ok
        THEN /\ outbox' = enqueue(outbox, type, c.tid, c.mid)
             /\ calls' = FreeCall(i)
             /\ ret' = Returned(c, FALSE, "LocalWrite", FALSE, 1)
             /\ evt' = NoEvt
        ELSE IF isConnected(wrappedStatus)
        THEN /\ calls' = [calls EXCEPT ![i] = [c EXCEPT !.pc = "fwd", !.conn = "yes",
                                                        !.called = TRUE]]
             /\ ret' = NoRet
             /\ evt' = [NoEvt EXCEPT !.cbs = cbs,
                                     !.sent = {RemoteCall(type, c.tid, c.mid, "live")}]
             /\ UNCHANGED outbox
        ELSE /\ outbox' = enqueue(outbox, type, c.tid, c.mid)
             /\ calls' = FreeCall(i)
             /\ ret' = Returned([c EXCEPT !.conn = "no"], TRUE, "", FALSE, 1)
             /\ evt' = [NoEvt EXCEPT !.cbs = cbs]

\* A continuation that fires the callback and forwards whether or not the
\* sidecar write succeeded
AfterSaveUnchecked(i, type, cbs) ==
    LET c == calls[i]
    IN  IF isConnected(wrappedStatus)
        THEN /\ calls' = [calls EXCEPT ![i] = [c EXCEPT !.pc = "fwd", !.conn = "yes",
                                                        !.called = TRUE]]
             /\ ret' = NoRet
             /\ evt' = [NoEvt EXCEPT !.cbs = cbs,
                                     !.sent = {RemoteCall(type, c.tid, c.mid, "live")}]
             /\ UNCHANGED outbox
        ELSE /\ outbox' = enqueue(outbox, type, c.tid, c.mid)
             /\ calls' = FreeCall(i)
             /\ ret' = Returned([c EXCEPT !.conn = "no"], TRUE, "", FALSE, 1)
             /\ evt' = [NoEvt EXCEPT !.cbs = cbs]

\* After `await this.storage.saveImmediate(...)`: a failed write propagates to
\* the caller; otherwise the local callback fires (cbs), and the operation is
\* forwarded when isConnected() and queued otherwise.
AfterSave(i, type, cbs) ==
    LET c == calls[i]
    IN  IF ~c.ok
        THEN /\ calls' = FreeCall(i)
             /\ ret' = Returned(c, FALSE, "LocalWrite", FALSE, 0)
             /\ evt' = NoEvt
             /\ UNCHANGED outbox
        ELSE IF isConnected(wrappedStatus)
        THEN /\ calls' = [calls EXCEPT ![i] = [c EXCEPT !.pc = "fwd", !.conn = "yes",
                                                        !.called = TRUE]]
             /\ ret' = NoRet
             /\ evt' = [NoEvt EXCEPT !.cbs = cbs,
                                     !.sent = {RemoteCall(type, c.tid, c.mid, "live")}]
             /\ UNCHANGED outbox
        ELSE /\ outbox' = enqueue(outbox, type, c.tid, c.mid)
             /\ calls' = FreeCall(i)
             /\ ret' = Returned([c EXCEPT !.conn = "no"], TRUE, "", FALSE, 1)
             /\ evt' = [NoEvt EXCEPT !.cbs = cbs]

\* The catch around `await this.wrapped.<op>(...)`: ok, or queue and return.
ForwardSettled(i, ok) ==
    LET c == calls[i]
        rc == RemoteCall(c.op, c.tid, c.mid, "live")
    IN  /\ c.op \in MutatingOps /\ c.pc = "fwd"
        /\ calls' = FreeCall(i)
        /\ IF ok
           THEN /\ ret' = Returned(c, TRUE, "", TRUE, 0)
                /\ evt' = [NoEvt EXCEPT !.acked = {rc}]
                /\ remoteHas' = IF c.op = "createThread" THEN remoteHas \cup {c.tid}
                                ELSE remoteHas
                /\ UNCHANGED outbox
           ELSE /\ outbox' = enqueue(outbox, c.op, c.tid, c.mid)
                /\ ret' = Returned(c, TRUE, "", FALSE, 1)
                /\ evt' = [NoEvt EXCEPT !.failed = {rc}]
                /\ UNCHANGED remoteHas
        /\ UNCHANGED <<activeFile, threads, anchorIndex, draining, drain, socket,
                       wrappedStatus, persisted, text, nextId, nextMsgId, now, cbCount>>

(***************************************************************************)
(* createThread                                                            *)
(***************************************************************************)
CreateThreadCall(sel, first, saveOk) ==
    IF activeFile = NoFile
    THEN Throws("createThread", NoId, NoId, "NoActiveDocument")
    ELSE LET thread == createThreadModel(LocalId(nextId), activeFile,
                            SelectionAnchor(text[activeFile], sel[1], sel[2]), first, now)
             ths == Append(threads, thread)
         IN  /\ HasFreeSlot /\ CanQueue /\ CanAddThread
             /\ nextId <= MaxLocalIds
             /\ threads' = ths
             /\ anchorIndex' = build(ths)
             /\ persisted' = saveImmediate(persisted, activeFile, ths, saveOk)
             /\ calls' = [calls EXCEPT ![FreeSlot] =
                            [IdleCall EXCEPT !.op = "createThread", !.pc = "save",
                                             !.tid = thread.id, !.ok = saveOk]]
             /\ nextId' = nextId + 1
             /\ nextMsgId' = nextMsgId + Len(first)
             /\ ret' = NoRet
             /\ evt' = NoEvt
             /\ UNCHANGED <<activeFile, outbox, draining, drain, socket, wrappedStatus,
                            text, remoteHas, now, cbCount>>

CreateThreadSaved(i) ==
    /\ calls[i].op = "createThread" /\ calls[i].pc = "save"
    /\ AfterSave(i, "createThread", {<<"onNewThread", calls[i].tid, NoId>>})
    /\ cbCount' = IF calls[i].ok THEN [cbCount EXCEPT ![calls[i].tid] = @ + 1] ELSE cbCount
    /\ UNCHANGED <<activeFile, threads, anchorIndex, draining, drain, socket,
                   wrappedStatus, persisted, text, remoteHas, nextId, nextMsgId, now>>

(***************************************************************************)
(* addMessage, resolveThread, reopenThread                                 *)
(***************************************************************************)
\* The local write of an operation on the thread at position ti: the thread
\* array with that thread replaced by th, saved to the active file's sidecar.
LocalWrite(op, ti, th, mid, saveOk) ==
    LET ths == [threads EXCEPT ![ti] = th]
    IN  /\ HasFreeSlot /\ CanQueue
        /\ threads' = ths
        /\ persisted' = saveImmediate(persisted, activeFile, ths, saveOk)
        /\ calls' = [calls EXCEPT ![FreeSlot] =
                        [IdleCall EXCEPT !.op = op, !.pc = "save", !.tid = th.id,
                                         !.mid = mid, !.ok = saveOk]]
        /\ ret' = NoRet
        /\ evt' = NoEvt

AddMessageCall(tid, sg, saveOk) ==
    LET ti == FindThread(threads, tid)
        message == createMessage(MsgId(nextMsgId), sg)
    IN  IF activeFile = NoFile
        THEN Throws("addMessage", tid, NoId, "NoActiveDocument")
        ELSE IF ti = 0
        THEN Throws("addMessage", tid, NoId, "ThreadNotFound")
        ELSE /\ nextMsgId <= MaxLocalMsgIds
             /\ Len(threads[ti].messages) < MaxMsgs
             /\ LocalWrite("addMessage", ti,
                           [threads[ti] EXCEPT !.messages = Append(@, message),
                                               !.updatedAt = now],
                           message.id, saveOk)
             /\ nextMsgId' = nextMsgId + 1
             /\ UNCHANGED <<activeFile, anchorIndex, outbox, draining, drain, socket,
                            wrappedStatus, text, remoteHas, nextId, now, cbCount>>

AddMessageSaved(i) ==
    /\ calls[i].op = "addMessage" /\ calls[i].pc = "save"
    /\ AfterSave(i, "addMessage", {<<"onNewMessage", calls[i].tid, calls[i].mid>>})
    /\ UNCHANGED <<activeFile, threads, anchorIndex, draining, drain, socket,
                   wrappedStatus, persisted, text, remoteHas, nextId, nextMsgId, now,
                   cbCount>>

SetStatusCall(op, status, tid, saveOk) ==
    LET ti == FindThread(threads, tid)
    IN  IF activeFile = NoFile
        THEN Throws(op, tid, NoId, "NoActiveDocument")
        ELSE IF ti = 0
        THEN Throws(op, tid, NoId, "ThreadNotFound")
        ELSE /\ LocalWrite(op, ti, [threads[ti] EXCEPT !.status = status, !.updatedAt = now],
                           NoId, saveOk)
             /\ UNCHANGED <<activeFile, anchorIndex, outbox, draining, drain, socket,
                            wrappedStatus, text, remoteHas, nextId, nextMsgId, now,
                            cbCount>>

ResolveThreadCall(tid, saveOk) == SetStatusCall("resolveThread", "resolved", tid, saveOk)

ReopenThreadCall(tid, saveOk) == SetStatusCall("reopenThread", "open", tid, saveOk)

StatusSaved(i) ==
    /\ calls[i].op \in {"resolveThread", "reopenThread"} /\ calls[i].pc = "save"
    /\ AfterSave(i, calls[i].op, {})
    /\ UNCHANGED <<activeFile, threads, anchorIndex, draining, drain, socket,
                   wrappedStatus, persisted, text, remoteHas, nextId, nextMsgId, now,
                   cbCount>>

(***************************************************************************)
(* acceptSuggestion, rejectSuggestion                                      *)
(***************************************************************************)
\* The checks without the one on a suggestion that is no longer pending
SuggestionCheckAnyStatus(tid, mid) ==
    LET ti == FindThread(threads, tid)
        mi == IF ti = 0 THEN 0 ELSE FindMessage(threads[ti].messages, mid)
    IN  IF activeFile = NoFile THEN "NoActiveDocument"
        ELSE IF ti = 0 THEN "ThreadNotFound"
        ELSE IF mi = 0 THEN "MessageNotFound"
        ELSE IF threads[ti].messages[mi].suggestion.status = "none" THEN "NoSuggestion"
        ELSE ""

\* The checks both operations make before their first await: "" when they
\* pass, else the error thrown.
SuggestionCheck(tid, mid) ==
    LET ti == FindThread(threads, tid)
        mi == IF ti = 0 THEN 0 ELSE FindMessage(threads[ti].messages, mid)
    IN  IF activeFile = NoFile THEN "NoActiveDocument"
        ELSE IF ti = 0 THEN "ThreadNotFound"
        ELSE IF mi = 0 THEN "MessageNotFound"
        ELSE IF threads[ti].messages[mi].suggestion.status = "none" THEN "NoSuggestion"
        ELSE IF threads[ti].messages[mi].suggestion.status # "pending" THEN "AlreadyDecided"
        ELSE ""

\* message.suggestion.status = status; thread.updatedAt = nowISO()
Decide(ths, ti, mi, status, t) ==
    [ths EXCEPT ![ti] = [@ EXCEPT !.messages[mi].suggestion.status = status,
                                  !.updatedAt = t]]

RejectSuggestionCall(tid, mid, saveOk) ==
    LET ti == FindThread(threads, tid)
        mi == FindMessage(threads[ti].messages, mid)
    IN  IF SuggestionCheck(tid, mid) # ""
        THEN Throws("rejectSuggestion", tid, mid, SuggestionCheck(tid, mid))
        ELSE /\ LocalWrite("rejectSuggestion", ti, Decide(threads, ti, mi, "rejected", now)[ti],
                           mid, saveOk)
             /\ UNCHANGED <<activeFile, anchorIndex, outbox, draining, drain, socket,
                            wrappedStatus, text, remoteHas, nextId, nextMsgId, now,
                            cbCount>>

RejectSuggestionSaved(i) ==
    /\ calls[i].op = "rejectSuggestion" /\ calls[i].pc = "save"
    /\ AfterSave(i, "rejectSuggestion", {})
    /\ UNCHANGED <<activeFile, threads, anchorIndex, draining, drain, socket,
                   wrappedStatus, persisted, text, remoteHas, nextId, nextMsgId, now,
                   cbCount>>

\* The checks pass; `await this.vault.read(this.activeFile)` (the text is the
\* file's text when the read is issued).
AcceptSuggestionCall(tid, mid) ==
    LET ti == FindThread(threads, tid)
        mi == FindMessage(threads[ti].messages, mid)
    IN  IF SuggestionCheck(tid, mid) # ""
        THEN Throws("acceptSuggestion", tid, mid, SuggestionCheck(tid, mid))
        ELSE /\ HasFreeSlot /\ CanQueue
             /\ Len(text[activeFile]) < MaxTextLen
             /\ calls' = [calls EXCEPT ![FreeSlot] =
                            [IdleCall EXCEPT !.op = "acceptSuggestion", !.pc = "read",
                                             !.tid = tid, !.mid = mid, !.ti = ti, !.mi = mi,
                                             !.content = text[activeFile]]]
             /\ ret' = NoRet
             /\ evt' = NoEvt
             /\ UNCHANGED <<activeFile, threads, anchorIndex, outbox, draining, drain,
                            socket, wrappedStatus, persisted, text, remoteHas, nextId,
                            nextMsgId, now, cbCount>>

\* The thread object an acceptSuggestion call holds: the one in the thread
\* array, or the one of the array that setActiveDocument replaced.
HeldThread(c) == IF c.stale THEN c.ths[1] ELSE threads[c.ti]

\* The document text after the replacement
Replace(content, replaceStart, replaceEnd, replacementText) ==
    Slice(content, 0, replaceStart) \o replacementText
        \o Slice(content, replaceEnd, Len(content))

\* A document write that throws after it has written
modifyThenThrow(txt, file, newContent, ok) == [txt EXCEPT ![file] = newContent]

\* await this.vault.modify(file, newContent): the vault's text after the
\* write; a write that throws leaves the file as it was
modify(txt, file, newContent, ok) ==
    IF ok THEN [txt EXCEPT ![file] = newContent] ELSE txt

\* A check that searches the whole document
WholeDocumentText(content, anchor) == content

\* const currentText = content.slice(startOffset, endOffset)
CurrentText(content, anchor) == Slice(content, anchor.startOffset, anchor.endOffset)

\* After the read: the original text must occur inside the anchor range; the
\* replacement is written with `await this.vault.modify(this.activeFile, ...)`.
AcceptSuggestionRead(i, readOk, modifyOk) ==
    LET c == calls[i]
        thread == HeldThread(c)
        sg == thread.messages[c.mi].suggestion
        startOffset == thread.anchor.startOffset
        currentText == CurrentText(c.content, thread.anchor)
        localIdx == IndexOf(currentText, sg.originalText)
        replaceStart == startOffset + localIdx
        replaceEnd == replaceStart + Len(sg.originalText)
        newContent == Replace(c.content, replaceStart, replaceEnd, sg.replacementText)
    IN  /\ c.op = "acceptSuggestion" /\ c.pc = "read"
        /\ IF ~readOk
           THEN /\ calls' = FreeCall(i)
                /\ ret' = Returned(c, FALSE, "LocalRead", FALSE, 0)
                /\ UNCHANGED text
           ELSE IF ~Includes(currentText, sg.originalText)
           THEN /\ calls' = FreeCall(i)
                /\ ret' = Returned(c, FALSE, "StaleSuggestion", FALSE, 0)
                /\ UNCHANGED text
           ELSE /\ calls' = [calls EXCEPT ![i] =
                               [c EXCEPT !.pc = "modify", !.ok = modifyOk,
                                         !.span = <<replaceStart, replaceEnd,
                                                    Len(sg.replacementText)>>]]
                /\ ret' = NoRet
                /\ text' = modify(text, activeFile, newContent, modifyOk)
        /\ evt' = NoEvt
        /\ UNCHANGED <<activeFile, threads, anchorIndex, outbox, draining, drain, socket,
                       wrappedStatus, persisted, remoteHas, nextId, nextMsgId, now,
                       cbCount>>

\* After the document write: the other anchors are shifted, the suggestion
\* is set to accepted and the sidecar is saved.
AcceptSuggestionModified(i, saveOk) ==
    LET c == calls[i]
        shifted == applyOffsetShift(threads, anchorIndex, c.span[1], c.span[2], c.span[3])
        ths == IF c.stale THEN shifted ELSE Decide(shifted, c.ti, c.mi, "accepted", now)
    IN  /\ c.op = "acceptSuggestion" /\ c.pc = "modify"
        /\ IF ~c.ok
           THEN /\ calls' = FreeCall(i)
                /\ ret' = Returned(c, FALSE, "LocalWrite", FALSE, 0)
                /\ UNCHANGED <<threads, anchorIndex, persisted>>
           ELSE /\ threads' = ths
                /\ anchorIndex' = IndexAfterShift(threads, anchorIndex, c.span[1], c.span[2],
                                                  c.span[3])
                /\ persisted' = saveImmediate(persisted, activeFile, ths, saveOk)
                /\ calls' = [calls EXCEPT ![i] = [c EXCEPT !.pc = "save", !.ok = saveOk]]
                /\ ret' = NoRet
        /\ evt' = NoEvt
        /\ UNCHANGED <<activeFile, outbox, draining, drain, socket, wrappedStatus, text,
                       remoteHas, nextId, nextMsgId, now, cbCount>>

AcceptSuggestionSaved(i) ==
    /\ calls[i].op = "acceptSuggestion" /\ calls[i].pc = "save"
    /\ AfterSave(i, "acceptSuggestion", {})
    /\ UNCHANGED <<activeFile, threads, anchorIndex, draining, drain, socket,
                   wrappedStatus, persisted, text, remoteHas, nextId, nextMsgId, now,
                   cbCount>>

(***************************************************************************)
(* Pushed events (backend -> plugin)                                       *)
(***************************************************************************)
\* The ids of pushed threads: the remote's own id, or the id of a thread the
\* plugin holds
PushedThreadIds == {RemoteThreadId} \cup ThreadIds(threads)

\* A merge that keeps the offsets the thread arrived with
NotReanchored(thread, content) == thread

\* With the resolved offsets when the resolver finds the anchor
Reanchored(thread, content) ==
    LET resolved == resolveAnchor(thread.anchor, content)
    IN  IF resolved.method # "none"
        THEN [thread EXCEPT !.anchor.startOffset = resolved.startOffset,
                            !.anchor.endOffset = resolved.endOffset]
        ELSE thread

\* handleIncomingThread: a known id is dropped; with an active file the
\* thread is re-anchored first (reanchorAndAddThread, up to its vault.read).
HandleIncomingThread(id, doc, anchor) ==
    LET thread == createThreadModel(id, doc, anchor, <<>>, 0)
        ths == Append(threads, thread)
    IN  /\ id \in PushedThreadIds
        /\ ret' = NoRet
        /\ IF id \in ThreadIds(threads)
           THEN /\ evt' = [NoEvt EXCEPT !.push = "threadDup"]
                /\ UNCHANGED <<threads, anchorIndex, calls, cbCount>>
           ELSE IF activeFile # NoFile
           THEN /\ HasFreeSlot /\ CanAddThread
                /\ calls' = [calls EXCEPT ![FreeSlot] =
                               [IdleCall EXCEPT !.op = "reanchor", !.pc = "read",
                                                !.tid = id, !.ths = <<thread>>,
                                                !.content = text[activeFile]]]
                /\ evt' = [NoEvt EXCEPT !.push = "threadNew"]
                /\ UNCHANGED <<threads, anchorIndex, cbCount>>
           ELSE /\ CanAddThread
                /\ threads' = ths
                /\ anchorIndex' = build(ths)
                /\ cbCount' = [cbCount EXCEPT ![id] = @ + 1]
                /\ evt' = [NoEvt EXCEPT !.push = "threadNew",
                                        !.cbs = {<<"onNewThread", id, NoId>>}]
                /\ UNCHANGED calls
        /\ UNCHANGED <<activeFile, outbox, draining, drain, socket, wrappedStatus,
                       persisted, text, remoteHas, nextId, nextMsgId, now>>

\* reanchorAndAddThread after its vault.read: a failed read or an anchor the
\* resolver does not find leaves the offsets; the thread is added, saved
\* (the save is not awaited) and announced.
ReanchorAndAddThread(i, readOk, saveOk) ==
    LET c == calls[i]
        thread == IF readOk THEN Reanchored(c.ths[1], c.content) ELSE c.ths[1]
        ths == Append(threads, thread)
    IN  /\ c.op = "reanchor" /\ c.pc = "read"
        /\ threads' = ths
        /\ anchorIndex' = build(ths)
        /\ persisted' = saveImmediate(persisted, activeFile, ths, saveOk)
        /\ cbCount' = [cbCount EXCEPT ![c.tid] = @ + 1]
        /\ calls' = FreeCall(i)
        /\ ret' = NoRet
        /\ evt' = [NoEvt EXCEPT !.cbs = {<<"onNewThread", c.tid, NoId>>}]
        /\ UNCHANGED <<activeFile, outbox, draining, drain, socket, wrappedStatus,
                       text, remoteHas, nextId, nextMsgId, now>>

\* The suggestion the remote attaches to the messages it pushes
PushedSuggestion == createSuggestion(<<"b">>, <<"b", "b">>)

\* The messages the remote pushes for a thread: its own message, with or
\* without a suggestion, or a message the thread already holds
PushedMessages(tid) ==
    {createMessage(RemoteMsgId, sg) : sg \in {NoSuggestion, PushedSuggestion}}
    \cup (IF FindThread(threads, tid) = 0 THEN {}
          ELSE LET msgs == threads[FindThread(threads, tid)].messages
               IN  {msgs[k] : k \in DOMAIN msgs})

\* The merge of handleIncomingMessage: what it leaves (ths, store), the
\* callbacks it fires (cbs) and what it found (kind).
MergeMessage(tid, message, saveOk) ==
    LET ti == FindThread(threads, tid)
        ths == [threads EXCEPT ![ti] = [@ EXCEPT !.messages = Append(@, message),
                                                 !.updatedAt = now]]
    IN  IF ti = 0
        THEN [ths |-> threads, store |-> persisted, cbs |-> {}, kind |-> "NoThread"]
        ELSE IF FindMessage(threads[ti].messages, message.id) # 0
        THEN [ths |-> threads, store |-> persisted, cbs |-> {}, kind |-> "Dup"]
        ELSE [ths |-> ths,
              store |-> IF activeFile # NoFile
                        THEN saveImmediate(persisted, activeFile, ths, saveOk)
                        ELSE persisted,
              cbs |-> {<<"onNewMessage", tid, message.id>>},
              kind |-> "New"]

\* The merged thread stays within the model's bound on messages.
FitsMessages(ths) == \A k \in DOMAIN ths : Len(ths[k].messages) <= MaxMsgs

HandleIncomingMessage(tid, message, saveOk) ==
    LET m == MergeMessage(tid, message, saveOk)
    IN  /\ message \in PushedMessages(tid)
        /\ FitsMessages(m.ths)
        /\ threads' = m.ths
        /\ persisted' = m.store
        /\ ret' = NoRet
        /\ evt' = [NoEvt EXCEPT !.cbs = m.cbs, !.push = "msg" \o m.kind]
        /\ UNCHANGED <<activeFile, anchorIndex, outbox, draining, drain, calls, socket,
                       wrappedStatus, text, remoteHas, nextId, nextMsgId, now, cbCount>>

\* handleIncomingSuggestion: the merge of handleIncomingMessage, then the
\* suggestion callback when the thread exists.
HandleIncomingSuggestion(tid, message, saveOk) ==
    LET m == MergeMessage(tid, message, saveOk)
        scb == IF FindThread(m.ths, tid) # 0
               THEN {<<"onSuggestion", tid, message.id>>} ELSE {}
    IN  /\ message \in PushedMessages(tid)
        /\ FitsMessages(m.ths)
        /\ threads' = m.ths
        /\ persisted' = m.store
        /\ ret' = NoRet
        /\ evt' = [NoEvt EXCEPT !.cbs = m.cbs \cup scb, !.push = "sug" \o m.kind]
        /\ UNCHANGED <<activeFile, anchorIndex, outbox, draining, drain, calls, socket,
                       wrappedStatus, text, remoteHas, nextId, nextMsgId, now, cbCount>>

(***************************************************************************)
(* The outbox: drainOutbox, clearOutbox                                    *)
(***************************************************************************)
\* A drain that forwards the newest entry
DrainPickNewest(q) == q[Len(q)]

\* The entry the drain loop forwards next: this.outbox[0]
DrainPick(q) == q[1]

\* Array.prototype.shift
Shift(q) == IF q = <<>> THEN q ELSE Tail(q)

\* The head of the loop `while (this.outbox.length > 0 && this.isConnected())`:
\* the next entry is forwarded (forwardToBackend awaits the wrapped call), or
\* the loop ends and draining is reset.
LoopHead(q, status) ==
    IF q # <<>> /\ isConnected(status)
    THEN [draining |-> TRUE,
          drain |-> [pc |-> "fwd", entry |-> DrainPick(q), inOutbox |-> TRUE],
          sent |-> {RemoteCall(DrainPick(q).type, DrainPick(q).tid, DrainPick(q).mid, "drain")}]
    ELSE [draining |-> FALSE, drain |-> IdleDrain, sent |-> {}]

\* A drainOutbox() that returns at once
drainOutboxSkipped(q, status) == [draining |-> draining, drain |-> drain, sent |-> {}]

\* drainOutbox(): returns at once while a drain runs or the outbox is empty
drainOutbox(q, status) ==
    IF draining \/ q = <<>>
    THEN [draining |-> draining, drain |-> drain, sent |-> {}]
    ELSE LoopHead(q, status)

\* The retry cap: the entry is discarded once its count reaches the cap
RetryExhausted(retryCount) == retryCount >= MAX_RETRY_COUNT

\* forwardToBackend settles: on success the head is removed; on failure the
\* entry's retryCount is incremented, and the head is removed when the count
\* reaches the cap, else the loop stops. The loop then goes on from its head.
DrainSettled(ok) ==
    LET entry == drain.entry
        rc == RemoteCall(entry.type, entry.tid, entry.mid, "drain")
        counted == IF drain.inOutbox /\ outbox # <<>>
                   THEN [outbox EXCEPT ![1].retryCount = @ + 1] ELSE outbox
        retryCount == entry.retryCount + 1
        q == IF ok THEN Shift(outbox)
             ELSE IF RetryExhausted(retryCount) THEN Shift(counted) ELSE counted
        next == IF ok \/ RetryExhausted(retryCount) THEN LoopHead(q, wrappedStatus)
                ELSE [draining |-> FALSE, drain |-> IdleDrain, sent |-> {}]
    IN  /\ drain.pc = "fwd"
        /\ outbox' = q
        /\ draining' = next.draining
        /\ drain' = next.drain
        /\ remoteHas' = IF ok /\ entry.type = "createThread" THEN remoteHas \cup {entry.tid}
                        ELSE remoteHas
        /\ ret' = NoRet
        /\ evt' = [NoEvt EXCEPT !.sent = next.sent,
                                !.acked = IF ok THEN {rc} ELSE {},
                                !.failed = IF ok THEN {} ELSE {rc},
                                !.dropped = IF ~ok /\ RetryExhausted(retryCount) /\ counted # <<>>
                                            THEN {counted[1]} ELSE {}]
        /\ UNCHANGED <<activeFile, threads, anchorIndex, calls, socket, wrappedStatus,
                       persisted, text, nextId, nextMsgId, now, cbCount>>

\* clearOutbox(): this.outbox = []. A running drain keeps the entry object
\* it awaits, which is no longer in the outbox.
ClearOutbox ==
    /\ outbox' = <<>>
    /\ drain' = [drain EXCEPT !.inOutbox = FALSE]
    /\ ret' = NoRet
    /\ evt' = NoEvt
    /\ UNCHANGED <<activeFile, threads, anchorIndex, draining, calls, socket,
                   wrappedStatus, persisted, text, remoteHas, nextId, nextMsgId, now,
                   cbCount>>

(***************************************************************************)
(* Connection: OfflineAwareBackend.connect/disconnect over the wrapped     *)
(* adapter (WebSocketBackend: connect, onopen, onclose, scheduleReconnect) *)
(***************************************************************************)
\* The continuation of `await this.wrapped.connect()`: void this.drainOutbox()
StartDrain(status) ==
    LET d == drainOutbox(outbox, status)
    IN  /\ draining' = d.draining
        /\ drain' = d.drain
        /\ evt' = [NoEvt EXCEPT !.sent = d.sent]

\* OfflineAwareBackend.connect(). WebSocketBackend.connect() returns at once
\* while it has a socket that is open or connecting, and the core then calls
\* drainOutbox(); otherwise it opens a socket and the core awaits it.
ConnectCall ==
    /\ IF socket # "none"
       THEN /\ StartDrain(wrappedStatus)
            /\ UNCHANGED <<socket, wrappedStatus>>
       ELSE /\ socket' = "core"
            /\ wrappedStatus' = "connecting"
            /\ evt' = NoEvt
            /\ UNCHANGED <<draining, drain>>
    /\ ret' = NoRet
    /\ UNCHANGED <<activeFile, threads, anchorIndex, outbox, calls, persisted, text,
                   remoteHas, nextId, nextMsgId, now, cbCount>>

\* ws.onopen of the socket connect() of the core awaits: the status becomes
\* connected, the await resolves and the core calls drainOutbox().
ConnectOpened ==
    /\ socket = "core"
    /\ socket' = "open"
    /\ wrappedStatus' = "connected"
    /\ StartDrain("connected")
    /\ ret' = NoRet
    /\ UNCHANGED <<activeFile, threads, anchorIndex, outbox, calls, persisted, text,
                   remoteHas, nextId, nextMsgId, now, cbCount>>

\* ws.onopen of a socket the adapter's reconnect timer opened: the status
\* becomes connected; nothing of the core runs.
ReconnectOpened ==
    /\ socket = "timer"
    /\ socket' = "open"
    /\ wrappedStatus' = "connected"
    /\ ret' = NoRet
    /\ evt' = NoEvt
    /\ UNCHANGED <<activeFile, threads, anchorIndex, outbox, draining, drain, calls,
                   persisted, text, remoteHas, nextId, nextMsgId, now, cbCount>>

\* ws.onclose without disconnect(): a failed connection attempt (the core's
\* connect() catches the rejection) or the loss of an open connection. The
\* adapter reports connecting and schedules a reconnect.
SocketClosed ==
    /\ socket # "none"
    /\ socket' = "none"
    /\ wrappedStatus' = "connecting"
    /\ ret' = NoRet
    /\ evt' = NoEvt
    /\ UNCHANGED <<activeFile, threads, anchorIndex, outbox, draining, drain, calls,
                   persisted, text, remoteHas, nextId, nextMsgId, now, cbCount>>

\* The reconnect timer of scheduleReconnect fires: the adapter calls its own
\* connect().
ReconnectTimer ==
    /\ socket = "none" /\ wrappedStatus = "connecting"
    /\ socket' = "timer"
    /\ ret' = NoRet
    /\ evt' = NoEvt
    /\ UNCHANGED <<activeFile, threads, anchorIndex, outbox, draining, drain, calls,
                   wrappedStatus, persisted, text, remoteHas, nextId, nextMsgId, now,
                   cbCount>>

\* OfflineAwareBackend.disconnect(): the adapter closes its socket and
\* cancels its reconnect timer.
Disconnect ==
    /\ wrappedStatus # "disconnected"
    /\ socket' = "none"
    /\ wrappedStatus' = "disconnected"
    /\ ret' = NoRet
    /\ evt' = NoEvt
    /\ UNCHANGED <<activeFile, threads, anchorIndex, outbox, draining, drain, calls,
                   persisted, text, remoteHas, nextId, nextMsgId, now, cbCount>>

(***************************************************************************)
(* The environment: the plugin's calls, the vault and the remote           *)
(***************************************************************************)
\* The sidecar of a.md that an earlier session left in the vault: one thread
\* of the remote whose message carries a pending suggestion
SeedThread ==
    createThreadModel(SeedThreadId, "a.md", SelectionAnchor(InitText["a.md"], 0, 2),
                      <<createMessage(RemoteMsgId, createSuggestion(<<"a", "b">>, <<"b">>))>>, 0)

\* The sidecar of b.md that an earlier session left in the vault: a thread on
\* the first character whose suggestion names text that now occurs only
\* after its anchor, and a thread on the last character with a pending
\* suggestion that lengthens it
HeadThread ==
    createThreadModel(HeadThreadId, "b.md", SelectionAnchor(InitText["b.md"], 0, 1),
                      <<createMessage(RemoteMsgId, createSuggestion(<<"a">>, <<"b">>))>>, 0)

TailThread ==
    createThreadModel(TailThreadId, "b.md", SelectionAnchor(InitText["b.md"], 1, 2),
                      <<createMessage(RemoteMsgId, createSuggestion(<<"a">>, <<"a", "a">>))>>, 0)

\* The vault when the plugin starts
Vault == [d \in Docs |-> IF d = "a.md" THEN <<SeedThread>> ELSE <<HeadThread, TailThread>>]

Init == InitVault(Vault)

\* The messages of the thread set that carry a suggestion, as
\* <<thread id, message id>>
SuggestionIds(ths) ==
    UNION {{<<ths[i].id, ths[i].messages[k].id>> :
               k \in {n \in DOMAIN ths[i].messages :
                         ths[i].messages[n].suggestion.status # "none"}} :
           i \in DOMAIN ths}

\* The thread ids callers name: a thread of the thread set, or an id the set
\* does not hold (the remote's, as long as it has not been pushed)
CallThreadIds == ThreadIds(threads) \cup {RemoteThreadId}

\* The <<thread id, message id>> pairs callers of acceptSuggestion and
\* rejectSuggestion name: a message of the thread set, with or without a
\* suggestion, a message id its thread does not hold, or an unknown thread
CallMessageIds ==
    UNION {{<<threads[i].id, threads[i].messages[k].id>> : k \in DOMAIN threads[i].messages}
           \cup {<<threads[i].id, MsgId(MaxLocalMsgIds)>>} : i \in DOMAIN threads}
    \cup {<<RemoteThreadId, RemoteMsgId>>}

\* The editor selection of the last two characters of the open document
EndSelection ==
    LET t == IF activeFile = NoFile THEN <<>> ELSE text[activeFile]
    IN  <<Max(Len(t) - 2, 0), Len(t)>>

\* The anchor of a pushed thread: its offsets are stale in a.md, and its text
\* does not occur in b.md
PushedAnchor == MkAnchor(<<"a", "b">>, 1, 3, NoHeading)

\* A run holds at most MaxStarted calls of the plugin, pushed events and
\* clock ticks; the steps that continue a call and the connection are not
\* counted.
Begin == started < MaxStarted /\ started' = started + 1 /\ UNCHANGED <<wsb, sto>>
Rest == UNCHANGED <<started, wsb, sto>>

Next ==
    \/ Begin /\ \E f \in Docs : SetActiveDocumentCall(f)
    \/ Begin /\ \E ok \in BOOLEAN : CreateThreadCall(EndSelection, <<>>, ok)
    \/ Begin /\ \E tid \in CallThreadIds, ok \in BOOLEAN :
                    AddMessageCall(tid, NoSuggestion, ok)
    \/ Begin /\ \E tid \in CallThreadIds, ok \in BOOLEAN : ResolveThreadCall(tid, ok)
    \/ Begin /\ \E tid \in CallThreadIds, ok \in BOOLEAN : ReopenThreadCall(tid, ok)
    \/ Begin /\ \E p \in CallMessageIds, ok \in BOOLEAN :
                    RejectSuggestionCall(p[1], p[2], ok)
    \/ Begin /\ \E p \in CallMessageIds : AcceptSuggestionCall(p[1], p[2])
    \/ Begin /\ \E id \in AllThreadIds : HandleIncomingThread(id, "a.md", PushedAnchor)
    \/ Begin /\ \E tid \in AllThreadIds, ok \in BOOLEAN :
                    \E message \in PushedMessages(tid) :
                        HandleIncomingMessage(tid, message, ok)
    \/ Begin /\ \E tid \in AllThreadIds, ok \in BOOLEAN :
                    \E message \in PushedMessages(tid) :
                        HandleIncomingSuggestion(tid, message, ok)
    \/ Rest /\ \E i \in Slots : SetActiveDocumentLoaded(i)
    \/ Rest /\ \E i \in Slots : CreateThreadSaved(i)
    \/ Rest /\ \E i \in Slots : AddMessageSaved(i)
    \/ Rest /\ \E i \in Slots : StatusSaved(i)
    \/ Rest /\ \E i \in Slots : RejectSuggestionSaved(i)
    \/ Rest /\ \E i \in Slots, readOk \in BOOLEAN, modifyOk \in BOOLEAN :
                    AcceptSuggestionRead(i, readOk, modifyOk)
    \/ Rest /\ \E i \in Slots, ok \in BOOLEAN : AcceptSuggestionModified(i, ok)
    \/ Rest /\ \E i \in Slots : AcceptSuggestionSaved(i)
    \/ Rest /\ \E i \in Slots, ok \in BOOLEAN : ForwardSettled(i, ok)
    \/ Rest /\ \E i \in Slots, readOk \in BOOLEAN, ok \in BOOLEAN :
                    ReanchorAndAddThread(i, readOk, ok)
    \/ Rest /\ \E ok \in BOOLEAN : DrainSettled(ok)
    \/ Rest /\ ClearOutbox
    \/ Rest /\ ConnectCall
    \/ Rest /\ ConnectOpened
    \/ Rest /\ ReconnectOpened
    \/ Rest /\ SocketClosed
    \/ Rest /\ ReconnectTimer
    \/ Rest /\ Disconnect
    \/ Begin /\ Tick

Spec == Init /\ [][Next]_vars

(***************************************************************************)
(* The plugin's own thread operations (main.ts). They work on the array    *)
(* getThreads() returns, which is the backend's own array, and on the      *)
(* SidecarStorage directly; the backend's AnchorIndex is private to it.    *)
(* They are taken between the backend's calls.                             *)
(***************************************************************************)
AllIdle == \A q \in Slots : calls[q].op = "idle"

\* updateAnchors(threads, _, newContent): every thread the resolver finds
\* gets the resolved offsets, in place
updateAnchors(ths, newContent) == [i \in DOMAIN ths |-> Reanchored(ths[i], newContent)]

\* The threads updateAnchors reports as orphaned
Orphaned(ths, content) ==
    {i \in DOMAIN ths : resolveAnchor(ths[i].anchor, content).method = "none"}

\* threads.splice(idx, 1)
RemoveAt(ths, k) == SubSeq(ths, 1, k - 1) \o SubSeq(ths, k + 1, Len(ths))

\* The index after the array lost position k: the index itself is not
\* touched, its map still holds the removed object
Detached(idx, ths, k) ==
    [map  |-> {IF i > k THEN i - 1 ELSE i : i \in idx.map \ {k}},
     tree |-> idx.tree,
     gone |-> idx.gone \cup (IF k \in idx.map THEN {ths[k]} ELSE {})]

PluginStep(op) ==
    /\ activeFile # NoFile /\ AllIdle
    /\ ret' = [NoRet EXCEPT !.op = op] /\ evt' = NoEvt
    /\ UNCHANGED <<activeFile, outbox, draining, drain, calls, socket, wrappedStatus,
                   remoteHas, nextId, nextMsgId, now, cbCount>>

\* editor-change: the user types a character at the start of the document
EditDocument ==
    /\ PluginStep("editor-change")
    /\ Len(text[activeFile]) < MaxTextLen
    /\ text' = [text EXCEPT ![activeFile] = <<"b">> \o @]
    /\ UNCHANGED <<threads, anchorIndex, persisted>>

\* reanchorThreads, when the timer scheduleReanchor set expires: the anchors
\* are resolved against the editor's content and the array is saved (the
\* debounced save is taken at once; ok is whether the write happens)
ReanchorThreads(ok) ==
    /\ PluginStep("reanchorThreads")
    /\ threads # <<>>
    /\ threads' = updateAnchors(threads, text[activeFile])
    /\ persisted' = saveImmediate(persisted, activeFile, threads', ok)
    /\ UNCHANGED <<anchorIndex, text>>

\* reattachThread with the editor selection [sel[1], sel[2]): the thread gets
\* a new anchor, the array is saved and the panel refreshed (refreshPanel
\* runs updateAnchors over the array). The documents hold no headings.
ReattachThread(threadId, sel, ok) ==
    LET k == FindThread(threads, threadId)
        ths == [threads EXCEPT ![k].anchor =
                    SelectionAnchor(text[activeFile], sel[1], sel[2])]
    IN  /\ PluginStep("reattachThread")
        /\ sel[1] < sel[2]
        /\ k # 0
        /\ persisted' = saveImmediate(persisted, activeFile, ths, ok)
        /\ threads' = updateAnchors(ths, text[activeFile])
        /\ UNCHANGED <<anchorIndex, text>>

\* dismissOrphanedThread on a thread the panel shows as orphaned: the thread
\* is spliced out of the array, the array is saved and the panel refreshed
DismissOrphanedThread(threadId, ok) ==
    LET k == FindThread(threads, threadId)
        ths == RemoveAt(threads, k)
    IN  /\ PluginStep("dismissOrphanedThread")
        /\ k # 0
        /\ k \in Orphaned(threads, text[activeFile])
        /\ persisted' = saveImmediate(persisted, activeFile, ths, ok)
        /\ threads' = updateAnchors(ths, text[activeFile])
        /\ anchorIndex' = Detached(anchorIndex, threads, k)
        /\ UNCHANGED text

\* The backend's operations that add a thread or change an anchor, with the
\* plugin's own; the wrapped backend stays disconnected.
PluginNext ==
    \/ Begin /\ \E f \in Docs : SetActiveDocumentCall(f)
    \/ Begin /\ \E ok \in BOOLEAN : CreateThreadCall(EndSelection, <<>>, ok)
    \/ Begin /\ \E p \in CallMessageIds : AcceptSuggestionCall(p[1], p[2])
    \/ Begin /\ \E id \in AllThreadIds : HandleIncomingThread(id, "a.md", PushedAnchor)
    \/ Begin /\ EditDocument
    \/ Begin /\ \E ok \in BOOLEAN : ReanchorThreads(ok)
    \/ Begin /\ \E tid \in ThreadIds(threads), ok \in BOOLEAN :
                    ReattachThread(tid, EndSelection, ok)
    \/ Begin /\ \E tid \in ThreadIds(threads), ok \in BOOLEAN :
                    DismissOrphanedThread(tid, ok)
    \/ Rest /\ \E i \in Slots : SetActiveDocumentLoaded(i)
    \/ Rest /\ \E i \in Slots : CreateThreadSaved(i)
    \/ Rest /\ \E i \in Slots, readOk \in BOOLEAN, modifyOk \in BOOLEAN :
                    AcceptSuggestionRead(i, readOk, modifyOk)
    \/ Rest /\ \E i \in Slots, ok \in BOOLEAN : AcceptSuggestionModified(i, ok)
    \/ Rest /\ \E i \in Slots : AcceptSuggestionSaved(i)
    \/ Rest /\ \E i \in Slots, readOk \in BOOLEAN, ok \in BOOLEAN :
                    ReanchorAndAddThread(i, readOk, ok)

PluginSpec == Init /\ [][PluginNext]_vars

(***************************************************************************)
(* The anchor resolver over arbitrary stored anchors: a vault whose a.md   *)
(* holds any short text and whose sidecar holds one thread with any        *)
(* anchor, resolved by reanchorThreads when the document is open           *)
(***************************************************************************)
MaxDocLen == 3
MaxAnchorLen == 2
MaxLines == 4
Chars == {"a", "#"}

SeqsUpTo(n) == UNION {[1..k -> Chars] : k \in 0..n}

\* Short documents over two characters, the empty document among them
ResolverDocs == SeqsUpTo(MaxDocLen)

\* Stored anchors for the short documents: any short text (the empty one
\* too), offsets that may be negative, reversed or beyond the document's
\* end, with or without a section heading. validateThread checks only that
\* a stored thread has an anchor object.
ResolverAnchors ==
    {MkAnchor(t, s, e, h) : t \in SeqsUpTo(MaxAnchorLen),
                            s \in (-1)..(MaxDocLen + 1), e \in (-1)..(MaxDocLen + 1),
                            h \in {NoHeading, <<"#">>}}

\* Documents with sections: up to MaxLines lines, each a level-1 heading or
\* a line of body text
Headings == {<<"#", " ", "a">>, <<"#", " ", "b">>}
Lines == Headings \cup {<<"c">>}

RECURSIVE JoinLines(_)
JoinLines(ls) ==
    IF ls = <<>> THEN <<>>
    ELSE IF Len(ls) = 1 THEN ls[1]
    ELSE ls[1] \o <<"\n">> \o JoinLines(Tail(ls))

SectionDocs == {JoinLines(ls) : ls \in UNION {[1..k -> Lines] : k \in 1..MaxLines}}

\* Stored anchors for a document with sections: the body text or the empty
\* text at any offset of the document, with the heading the anchor was
\* taken under, if any
SectionAnchors(d) ==
    {MkAnchor(t, s, s + Len(t), h) : t \in {<<"c">>, <<>>}, s \in 0..Len(d),
                                    h \in {NoHeading} \cup Headings}

\* The resolver's inputs: a document and a stored anchor
ResolverInputs ==
    (ResolverDocs \X ResolverAnchors)
    \cup UNION {{<<d, anchor>> : anchor \in SectionAnchors(d)} : d \in SectionDocs}

StoredThread(anchor) == createThreadModel(SeedThreadId, "a.md", anchor, <<>>, 0)

ResolverInit ==
    \E in \in ResolverInputs :
        InitWith([f \in Docs |-> IF f = "a.md" THEN <<StoredThread(in[2])>> ELSE <<>>],
                 [InitText EXCEPT !["a.md"] = in[1]])

ResolverNext ==
    \/ Begin /\ SetActiveDocumentCall("a.md")
    \/ Rest /\ \E i \in Slots : SetActiveDocumentLoaded(i)
    \/ Begin /\ \E ok \in BOOLEAN : ReanchorThreads(ok)

ResolverSpec == ResolverInit /\ [][ResolverNext]_vars

(***************************************************************************)
(* acceptSuggestion over a vault with a second thread anywhere in a.md      *)
(***************************************************************************)
\* The suggestions of the first thread, anchored at [0,3) of a.md: two
\* that shorten the document, one that lengthens it, one that keeps its
\* length
ShiftSuggestions ==
    {createSuggestion(<<"a", "b", "a">>, <<>>),
     createSuggestion(<<"b", "a">>, <<"a">>),
     createSuggestion(<<"b">>, <<"b", "b">>),
     createSuggestion(<<"b">>, <<"a">>)}

SuggestingThread(sg) ==
    createThreadModel(SeedThreadId, "a.md", SelectionAnchor(InitText["a.md"], 0, 3),
                      <<createMessage(RemoteMsgId, sg)>>, 0)

\* The anchors of the second thread: every range of a.md with its text, and
\* every empty range, as a clamped end leaves it, with the text it had
ShiftAnchors ==
    UNION {{MkAnchor(IF a = b THEN <<"a">> ELSE SubSeq(InitText["a.md"], a + 1, b),
                     a, b, NoHeading) : b \in a..Len(InitText["a.md"])} :
              a \in 0..Len(InitText["a.md"])}

OtherThread(anchor) == createThreadModel(TailThreadId, "a.md", anchor, <<>>, 0)

ShiftInit ==
    \E sg \in ShiftSuggestions, anchor \in ShiftAnchors :
        InitVault([d \in Docs |-> IF d = "a.md"
                                  THEN <<SuggestingThread(sg), OtherThread(anchor)>>
                                  ELSE <<>>])

ShiftNext ==
    \/ Begin /\ SetActiveDocumentCall("a.md")
    \/ Begin /\ \E p \in CallMessageIds : AcceptSuggestionCall(p[1], p[2])
    \/ Rest /\ \E i \in Slots : SetActiveDocumentLoaded(i)
    \/ Rest /\ \E i \in Slots, readOk \in BOOLEAN, modifyOk \in BOOLEAN :
                    AcceptSuggestionRead(i, readOk, modifyOk)
    \/ Rest /\ \E i \in Slots, ok \in BOOLEAN : AcceptSuggestionModified(i, ok)
    \/ Rest /\ \E i \in Slots : AcceptSuggestionSaved(i)

ShiftSpec == ShiftInit /\ [][ShiftNext]_vars

(***************************************************************************)
(* The outbox under a connection that keeps coming back                    *)
(***************************************************************************)
\* Threads are created with and without a connection, the connection is
\* made, lost and closed, and the outbox is drained.
DrainNext ==
    \/ Begin /\ SetActiveDocumentCall("a.md")
    \/ Begin /\ CreateThreadCall(EndSelection, <<>>, TRUE)
    \/ Rest /\ \E i \in Slots : SetActiveDocumentLoaded(i)
    \/ Rest /\ \E i \in Slots : CreateThreadSaved(i)
    \/ Rest /\ \E i \in Slots, ok \in BOOLEAN : ForwardSettled(i, ok)
    \/ Rest /\ \E ok \in BOOLEAN : DrainSettled(ok)
    \/ Rest /\ ClearOutbox
    \/ Rest /\ ConnectCall
    \/ Rest /\ ConnectOpened
    \/ Rest /\ ReconnectOpened
    \/ Rest /\ SocketClosed
    \/ Rest /\ ReconnectTimer
    \/ Rest /\ Disconnect

\* The forward a drain awaits settles: the wrapped call resolves or rejects,
\* at the latest when its request times out. A socket the reconnect timer
\* opened fires its open or its close event. connect() keeps being called
\* and the socket it opens keeps opening.
DrainFairness ==
    /\ WF_vars(Rest /\ \E ok \in BOOLEAN : DrainSettled(ok))
    /\ WF_vars(Rest /\ socket = "timer" /\ (ReconnectOpened \/ SocketClosed))
    /\ SF_vars(Rest /\ ConnectCall)
    /\ SF_vars(Rest /\ ConnectOpened)

DrainSpec == Init /\ [][DrainNext]_vars /\ DrainFairness

(***************************************************************************)
(* The sidecar storage on its own                                          *)
(***************************************************************************)
\* The thread lists the plugin saves for a.md: none, the thread of the
\* record, and that thread with a second one
SavedThreadLists ==
    {<<>>, <<SeedThread>>,
     <<SeedThread, OtherThread(SelectionAnchor(InitText["a.md"], 2, 4))>>}

\* What the storage leaves alone: everything but the sidecars
StorageKeeps ==
    UNCHANGED <<activeFile, threads, anchorIndex, outbox, draining, drain, calls, socket,
                wrappedStatus, text, remoteHas, nextId, nextMsgId, now, cbCount, ret, evt,
                started, wsb>>

\* storage.save(file, threads), as the plugin calls it after re-anchoring
StorageSave(ths) ==
    /\ sto.n < MaxSaves
    /\ sto' = save(sto, ths)
    /\ UNCHANGED persisted
    /\ StorageKeeps

\* storage.saveImmediate(file, threads)
StorageSaveImmediate(ths, ok) ==
    /\ sto.n < MaxSaves
    /\ sto' = cancelPendingSave(sto, ths)
    /\ persisted' = saveImmediate(persisted, "a.md", ths, ok)
    /\ StorageKeeps

\* The debounce timer of save call k fires
SaveTimerFires(k, ok) ==
    /\ sto.timer[k] = "pending"
    /\ sto' = timerCallback(sto, k, ok)
    /\ persisted' = saveImmediate(persisted, "a.md", sto.arg[k], ok)
    /\ StorageKeeps

\* The writeFile of save call k settles
SaveWritten(k) ==
    /\ sto.writing[k] # "no"
    /\ sto' = thenResolve(sto, k)
    /\ UNCHANGED persisted
    /\ StorageKeeps

SaveNext ==
    \/ \E ths \in SavedThreadLists : StorageSave(ths)
    \/ \E ths \in SavedThreadLists, ok \in BOOLEAN : StorageSaveImmediate(ths, ok)
    \/ \E k \in Saves, ok \in BOOLEAN : SaveTimerFires(k, ok)
    \/ \E k \in Saves : SaveWritten(k)

\* A timer that is set and not cleared fires, and a write settles.
SaveFairness ==
    /\ WF_vars(\E k \in Saves, ok \in BOOLEAN : SaveTimerFires(k, ok))
    /\ WF_vars(\E k \in Saves : SaveWritten(k))

SaveSpec == Init /\ [][SaveNext]_vars /\ SaveFairness

(***************************************************************************)
(* The WebSocket client on its own                                         *)
(***************************************************************************)
WsNext ==
    \/ WsConnect
    \/ WsDisconnect
    \/ \E s \in Sockets : WsOpen(s)
    \/ \E s \in Sockets : WsLost(s)
    \/ \E s \in Sockets : WsClose(s)
    \/ \E t \in Timers : WsReconnectTimer(t)
    \/ \E r \in Requests : WsSendRequest(r)
    \/ \E s \in Sockets, r \in Requests, type \in {"response", "error"} :
            WsMessage(s, r, type)
    \/ \E r \in Requests : WsRequestTimeout(r)

WsSpec == Init /\ [][WsNext]_vars

(***************************************************************************)
(* Properties                                                              *)
(***************************************************************************)
\* The status of the suggestion of message mid of thread tid in ths
StatusOf(ths, tid, mid) ==
    LET ti == FindThread(ths, tid)
        mi == IF ti = 0 THEN 0 ELSE FindMessage(ths[ti].messages, mid)
    IN  IF mi = 0 THEN "absent" ELSE ths[ti].messages[mi].suggestion.status

\* What an outbox entry forwards: the entry without its retry count
Payload(e) == [type |-> e.type, tid |-> e.tid, mid |-> e.mid]
Payloads(q) == [k \in DOMAIN q |-> Payload(q[k])]

\* The wrapped calls of a step that a drain made
ByDrain(rcs) == {rc \in rcs : rc.src = "drain"}

\* The ids of threads created locally
LocalThreadIds == {LocalId(n) : n \in 1..MaxLocalIds}

\* C1: createThread, called with an active document while the wrapped
\* backend is not connected, returns successfully, and on return the new
\* thread is in getThreads() and in the persisted record of the active
\* document, the wrapped createThread has not been called, and the outbox
\* has gained exactly one entry, of type createThread with retryCount 0.
C1_CreateThreadOffline ==
    (ret.op = "createThread" /\ ret.conn = "no") =>
        /\ ret.ok
        /\ ret.tid \in ThreadIds(threads)
        /\ ret.tid \in ThreadIds(persisted[activeFile])
        /\ ~ret.called
        /\ ret.enq = 1
        /\ outbox # <<>>
        /\ outbox[Len(outbox)] = [type |-> "createThread", tid |-> ret.tid,
                                  mid |-> NoId, retryCount |-> 0]

\* C2: a mutating operation whose preconditions hold and whose local writes
\* succeed returns successfully whatever the remote does, and on return
\* either the wrapped call succeeded and the outbox is as it was, or exactly
\* one entry of the operation's type was appended: never both, never
\* neither. A call that fails has made no remote call.
C2_ForwardedOrQueued ==
    [][ /\ (ret'.op \in MutatingOps /\ ret'.conn # "na") =>
              /\ ret'.ok
              /\ \/ /\ ret'.fwd
                    /\ RemoteCall(ret'.op, ret'.tid, ret'.mid, "live") \in evt'.acked
                    /\ outbox' = outbox
                 \/ /\ ~ret'.fwd
                    /\ evt'.acked = {}
                    /\ outbox' = Append(outbox, [type |-> ret'.op, tid |-> ret'.tid,
                                                 mid |-> ret'.mid, retryCount |-> 0])
        /\ (ret'.op \in MutatingOps /\ ~ret'.ok) =>
              /\ ret'.conn = "na" /\ ~ret'.called
              /\ outbox' = outbox
      ]_vars

\* An operation that was forwarded while connected, failed remotely, and
\* was queued
C2_Witness ==
    /\ ret.op = "acceptSuggestion" /\ ret.ok
    /\ ret.called /\ ~ret.fwd /\ ret.enq = 1
    /\ outbox # <<>> /\ outbox[Len(outbox)].type = "acceptSuggestion"

\* C3: outbox entries are forwarded in the order they were enqueued. Every
\* forward a drain attempts is of the oldest entry in the outbox, and the
\* outbox changes only by losing its oldest entry, by gaining a newest one,
\* or by being cleared: no reordering, skipping or coalescing.
C3_FifoForwarding ==
    [][ /\ \A rc \in ByDrain(evt'.sent) :
              /\ outbox' # <<>>
              /\ Payload(outbox'[1]) = [type |-> rc.type, tid |-> rc.tid, mid |-> rc.mid]
        /\ \/ outbox' = <<>>
           \/ \E k \in {0, 1} :
                 /\ k <= Len(outbox)
                 /\ LET kept == SubSeq(Payloads(outbox), k + 1, Len(outbox))
                    IN  /\ Len(outbox') \in {Len(kept), Len(kept) + 1}
                        /\ SubSeq(Payloads(outbox'), 1, Len(kept)) = kept
      ]_vars

\* A drain has delivered the oldest entry and forwards the next, a
\* different one
C3_Witness ==
    /\ ByDrain(evt.acked) # {} /\ ByDrain(evt.sent) # {}
    /\ ByDrain(evt.acked) # ByDrain(evt.sent)

\* C4: no operation that references a locally created thread is delivered
\* to the remote before the createThread of that thread has been delivered:
\* none is delivered while the thread's createThread entry is still in the
\* outbox and no drain is forwarding that entry, be the operation issued
\* while connected or replayed by a drain.
C4_CreateThreadDeliveredFirst ==
    \A rc \in evt.acked : \A k \in DOMAIN outbox :
        ~(/\ rc.type # "createThread"
          /\ rc.tid \in LocalThreadIds
          /\ outbox[k].type = "createThread"
          /\ outbox[k].tid = rc.tid
          /\ ~(k = 1 /\ drain.pc = "fwd" /\ drain.inOutbox))

\* C5: a drain discards an outbox entry exactly when its retryCount reaches
\* 3: never after fewer failures, never kept after the third; discarding
\* changes nothing in the thread set or in the persisted record.
C5_RetryCap ==
    [][ /\ \A e \in evt'.dropped : e.retryCount = MAX_RETRY_COUNT
        /\ \A k \in DOMAIN outbox' : outbox'[k].retryCount < MAX_RETRY_COUNT
        /\ evt'.dropped # {} => UNCHANGED <<threads, persisted>>
      ]_vars

\* C6: whenever the connection becomes connected while the outbox holds
\* entries, a drain of the outbox is running from that moment.
C6_DrainOnEveryConnect ==
    [][ (wrappedStatus # "connected" /\ wrappedStatus' = "connected" /\ outbox' # <<>>)
            => (draining' /\ drain'.pc = "fwd")
      ]_vars

\* C7: once the handlers of pushed threads have completed, the thread set
\* holds at most one thread per id and onNewThread has fired at most once
\* per id.
C7_ThreadPushDedup ==
    InFlight({"reanchor"}) = {} =>
        \A id \in AllThreadIds :
            /\ Cardinality({i \in DOMAIN threads : threads[i].id = id}) <= 1
            /\ cbCount[id] <= 1

\* C8: a pushed message whose id already exists in the target thread is
\* discarded: the thread set is unchanged and no local callback fires,
\* neither onNewMessage nor onSuggestion.
C8_MessagePushDedup ==
    [][ evt'.push \in {"msgDup", "sugDup"} => (threads' = threads /\ evt'.cbs = {}) ]_vars

\* C9: under any interleaving of acceptSuggestion and rejectSuggestion, the
\* status of a suggestion changes only from pending to accepted or from
\* pending to rejected (steps of accept and reject: the load of
\* setActiveDocument replaces the thread set).
C9_SuggestionTerminal ==
    [][ ret'.op # "setActiveDocument" =>
          \A tid \in AllThreadIds, mid \in AllMsgIds :
              \/ StatusOf(threads', tid, mid) = StatusOf(threads, tid, mid)
              \/ StatusOf(threads, tid, mid) \in {"absent", "none"}
              \/ /\ StatusOf(threads, tid, mid) = "pending"
                 /\ StatusOf(threads', tid, mid) \in {"accepted", "rejected"}
      ]_vars

\* The suggestions that are accepted or rejected
Decided(ths) ==
    {p \in SuggestionIds(ths) : StatusOf(ths, p[1], p[2]) \in {"accepted", "rejected"}}

\* C10: an acceptSuggestion or rejectSuggestion call on a suggestion that is
\* accepted or rejected fails with the already-decided error and leaves the
\* thread set (statuses, anchors), the document text, the persisted record
\* and the outbox unchanged; no remote call is made and nothing is left in
\* flight.
C10_DecidedCallFails ==
    [][ \A p \in Decided(threads) :
          (\/ AcceptSuggestionCall(p[1], p[2])
           \/ \E ok \in BOOLEAN : RejectSuggestionCall(p[1], p[2], ok))
            => /\ ~ret'.ok /\ ret'.err = "AlreadyDecided"
               /\ UNCHANGED <<threads, anchorIndex, text, persisted, outbox, calls>>
               /\ evt'.sent = {} /\ evt'.cbs = {}
      ]_vars

\* acceptSuggestion was called on a rejected suggestion and failed
C10_Witness ==
    /\ ret.op = "acceptSuggestion" /\ ret.err = "AlreadyDecided"
    /\ StatusOf(threads, ret.tid, ret.mid) = "rejected"

\* The suggestion a call names, in the thread object the call holds
HeldSuggestion(c) == HeldThread(c).messages[c.mi].suggestion

\* originalText occurs inside document[startOffset, endOffset) of the thread
OccursInAnchor(content, anchor, originalText) ==
    \E k \in 0..Len(content) :
        /\ anchor.startOffset <= k
        /\ k + Len(originalText) <= anchor.endOffset
        /\ OccursAt(originalText, content, k)

\* C11: acceptSuggestion goes on to write the document only if originalText
\* occurs inside document[anchor.startOffset, anchor.endOffset) of the
\* suggestion's own thread; when it occurs only elsewhere or nowhere the call
\* fails with StaleSuggestion and leaves the document text, the thread set
\* (suggestion status, anchors), the anchor index, the persisted record and
\* the outbox unchanged.
C11_AnchorIsolation ==
    [][ \A i \in Slots : \A modifyOk \in BOOLEAN :
          AcceptSuggestionRead(i, TRUE, modifyOk) =>
            IF OccursInAnchor(calls[i].content, HeldThread(calls[i]).anchor,
                              HeldSuggestion(calls[i]).originalText)
            THEN ret' = NoRet
            ELSE /\ ~ret'.ok /\ ret'.op = "acceptSuggestion"
                 /\ ret'.err = "StaleSuggestion"
                 /\ UNCHANGED <<text, threads, anchorIndex, persisted, outbox>>
                 /\ evt' = NoEvt
      ]_vars

\* An acceptSuggestion has failed as stale on a suggestion that is still
\* pending and whose originalText occurs in the document, outside the anchor
\* of its thread
C11_Witness ==
    /\ ret.op = "acceptSuggestion" /\ ret.err = "StaleSuggestion"
    /\ StatusOf(threads, ret.tid, ret.mid) = "pending"
    /\ LET th == threads[FindThread(threads, ret.tid)]
           sg == th.messages[FindMessage(th.messages, ret.mid)].suggestion
       IN  /\ Includes(text[activeFile], sg.originalText)
           /\ ~OccursInAnchor(text[activeFile], th.anchor, sg.originalText)

\* C12: if the document write inside acceptSuggestion throws, the error
\* reaches the caller and the operation has no partial effect: neither the
\* step that issues the failing write nor the step that throws changes the
\* document text, the thread set (suggestion status, anchors), the anchor
\* index, the persisted record or the outbox, and no remote call is made.
C12_NoPartialAccept ==
    [][ \A i \in Slots :
          /\ AcceptSuggestionRead(i, TRUE, FALSE) =>
                UNCHANGED <<text, threads, anchorIndex, persisted, outbox>>
          /\ (calls[i].op = "acceptSuggestion" /\ calls[i].pc = "modify" /\ ~calls[i].ok
               /\ \E saveOk \in BOOLEAN : AcceptSuggestionModified(i, saveOk)) =>
                /\ ~ret'.ok /\ ret'.op = "acceptSuggestion" /\ ret'.err = "LocalWrite"
                /\ ~ret'.called /\ ret'.enq = 0
                /\ UNCHANGED <<text, threads, anchorIndex, persisted, outbox>>
                /\ evt' = NoEvt
      ]_vars

\* An acceptSuggestion whose document write threw has returned the error:
\* the suggestion is pending and the document has its original text
C12_Witness ==
    /\ ret.op = "acceptSuggestion" /\ ~ret.ok /\ ret.err = "LocalWrite"
    /\ StatusOf(threads, ret.tid, ret.mid) = "pending"
    /\ text = InitText
    /\ persisted = Vault

\* The offset of the first occurrence of originalText inside
\* document[startOffset, endOffset)
FirstInAnchor(content, anchor, originalText) ==
    CHOOSE k \in 0..Len(content) :
        /\ anchor.startOffset <= k
        /\ k + Len(originalText) <= anchor.endOffset
        /\ OccursAt(originalText, content, k)
        /\ \A j \in 0..(k - 1) :
              ~(anchor.startOffset <= j /\ OccursAt(originalText, content, j))

\* C13: a successful acceptSuggestion replaces exactly one span of the
\* document, the first occurrence of originalText inside the thread's anchor
\* range, with replacementText; it sets the suggestion to accepted; and it
\* shifts both offsets of every other thread whose anchor starts at or after
\* the end of the replaced span by delta = len(replacementText) -
\* len(originalText), leaving every thread whose anchor ends at or before
\* the start of the span unchanged.
C13_AcceptReplacesAndShifts ==
    [][ \A i \in Slots :
          LET c == calls[i]
              doc == text[activeFile]
              sg == HeldSuggestion(c)
              anchor == HeldThread(c).anchor
              k == FirstInAnchor(doc, anchor, sg.originalText)
              delta == c.span[3] - (c.span[2] - c.span[1])
          IN  /\ (AcceptSuggestionRead(i, TRUE, TRUE) /\ ret' = NoRet) =>
                    /\ OccursInAnchor(doc, anchor, sg.originalText)
                    /\ calls'[i].span = <<k, k + Len(sg.originalText), Len(sg.replacementText)>>
                    /\ text' = [text EXCEPT ![activeFile] =
                                  SubSeq(doc, 1, k) \o sg.replacementText
                                  \o SubSeq(doc, k + Len(sg.originalText) + 1, Len(doc))]
              /\ (c.op = "acceptSuggestion" /\ c.pc = "modify" /\ c.ok
                   /\ \E saveOk \in BOOLEAN : AcceptSuggestionModified(i, saveOk)) =>
                    /\ StatusOf(threads', c.tid, c.mid) = "accepted"
                    /\ Len(threads') = Len(threads)
                    /\ \A j \in DOMAIN threads :
                          /\ threads'[j].id = threads[j].id
                          /\ (threads[j].id # c.tid /\ threads[j].anchor.startOffset >= c.span[2]) =>
                                /\ threads'[j].anchor.startOffset =
                                       threads[j].anchor.startOffset + delta
                                /\ threads'[j].anchor.endOffset =
                                       threads[j].anchor.endOffset + delta
                          /\ (threads[j].id # c.tid /\ threads[j].anchor.endOffset <= c.span[1]) =>
                                threads'[j].anchor = threads[j].anchor
      ]_vars

\* The thread a push of id with PushedAnchor adds when the document read
\* gave content (readOk) or failed
ExpectedPushed(id, doc, readOk, content) ==
    LET arrived == createThreadModel(id, doc, PushedAnchor, <<>>, 0)
        resolved == resolveAnchor(PushedAnchor, content)
    IN  IF readOk /\ resolved.method # "none"
        THEN [arrived EXCEPT !.anchor.startOffset = resolved.startOffset,
                             !.anchor.endOffset = resolved.endOffset]
        ELSE arrived

\* C14: a pushed thread whose id is not yet known is always added to the
\* thread set and onNewThread fires once for it: the push either adds it at
\* once (no active document) or starts its re-anchoring, and the re-anchoring
\* ends by adding it. The stored anchor carries the resolved offsets when the
\* resolver resolves it against the document text read, and the offsets it
\* arrived with when resolution returns not-found or the read fails.
C14_PushedThreadAdded ==
    [][ /\ \A id \in AllThreadIds :
              (HandleIncomingThread(id, "a.md", PushedAnchor) /\ id \notin ThreadIds(threads)) =>
                  IF activeFile = NoFile
                  THEN /\ threads' = Append(threads, ExpectedPushed(id, "a.md", FALSE, <<>>))
                       /\ evt'.cbs = {<<"onNewThread", id, NoId>>}
                  ELSE /\ \E i \in Slots : calls'[i].op = "reanchor" /\ calls'[i].tid = id
                                             /\ calls[i].op = "idle"
                       /\ evt'.cbs = {}
        /\ \A i \in Slots : \A readOk \in BOOLEAN, saveOk \in BOOLEAN :
              ReanchorAndAddThread(i, readOk, saveOk) =>
                  /\ threads' = Append(threads, ExpectedPushed(calls[i].tid, "a.md", readOk,
                                                               calls[i].content))
                  /\ evt'.cbs = {<<"onNewThread", calls[i].tid, NoId>>}
      ]_vars

\* A pushed thread has been added with re-anchored offsets
C14_Witness ==
    /\ evt.cbs = {<<"onNewThread", RemoteThreadId, NoId>>}
    /\ threads # <<>>
    /\ threads[Len(threads)].id = RemoteThreadId
    /\ threads[Len(threads)].anchor.startOffset # PushedAnchor.startOffset
    /\ Slice(text[activeFile], threads[Len(threads)].anchor.startOffset,
             threads[Len(threads)].anchor.endOffset) = PushedAnchor.anchorText

\* The thread set holds no thread with the id
UnknownThread(tid) == \A i \in DOMAIN threads : threads[i].id # tid

\* The first thread with the id holds no message with the message id, or
\* the message carries no suggestion
UnknownSuggestion(tid, mid) ==
    \/ UnknownThread(tid)
    \/ LET th == threads[CHOOSE i \in DOMAIN threads :
                            threads[i].id = tid /\ \A j \in 1..(i - 1) : threads[j].id # tid]
       IN  \A k \in DOMAIN th.messages :
               th.messages[k].id = mid =>
                   /\ th.messages[k].suggestion.status = "none"
                   /\ \A n \in 1..(k - 1) : th.messages[n].id # mid

\* C15: a mutating call made before any setActiveDocument call, or naming an
\* unknown thread id, an unknown message id or (accept/reject) a message
\* without a suggestion, throws and performs no mutation: the thread set, the
\* anchor index, the persisted record, the document text and the outbox are
\* unchanged, no local callback fires and no remote call is made; a call
\* that goes on to its first await was made with an active document and
\* names a thread, a message and (accept/reject) a suggestion that exist.
C15_BadCallThrows ==
    [][ /\ (ret'.op \in MutatingOps
             /\ ret'.err \in {"NoActiveDocument", "ThreadNotFound", "MessageNotFound",
                              "NoSuggestion"}) =>
                /\ ~ret'.ok
                /\ UNCHANGED <<threads, anchorIndex, persisted, text, outbox, calls>>
                /\ evt' = NoEvt
        /\ \A i \in Slots :
              (calls[i].op = "idle" /\ calls'[i].op \in MutatingOps) =>
                /\ activeFile # NoFile
                /\ calls'[i].op \in MutatingOps \ {"createThread"} =>
                      ~UnknownThread(calls'[i].tid)
                /\ calls'[i].op \in {"acceptSuggestion", "rejectSuggestion"} =>
                      ~UnknownSuggestion(calls'[i].tid, calls'[i].mid)
      ]_vars

\* acceptSuggestion has thrown on a message that carries no suggestion
C15_Witness ==
    /\ ret.op = "acceptSuggestion" /\ ~ret.ok /\ ret.err = "NoSuggestion"
    /\ ~UnknownThread(ret.tid)
    /\ StatusOf(threads, ret.tid, ret.mid) = "none"

\* C16: the document text is written only by a successful acceptSuggestion:
\* a step that changes the text is the document write of an acceptSuggestion
\* call, and a call that has written the document does not fail; every other
\* operation, merge and drain step leaves the text unchanged.
C16_OnlyAcceptWrites ==
    [][ /\ text' # text =>
              \E i \in Slots : /\ calls[i].op = "acceptSuggestion" /\ calls[i].pc = "read"
                                /\ calls'[i].op = "acceptSuggestion" /\ calls'[i].pc = "modify"
                                /\ calls'[i].ok
        /\ \A i \in Slots :
              (calls[i].op = "acceptSuggestion" /\ calls[i].pc = "save"
               /\ AcceptSuggestionSaved(i)) => ret'.ok
      ]_vars

\* The ids of a thread's messages, in list order
MessageIdsOf(thread) == [k \in DOMAIN thread.messages |-> thread.messages[k].id]

\* Sequence p is a prefix of sequence q
IsPrefix(p, q) == Len(p) <= Len(q) /\ SubSeq(q, 1, Len(p)) = p

\* C17: messages are append-only: in every step (local operation, merge of
\* a pushed event, reload by setActiveDocument) the message list of a thread
\* that stays in the thread set only grows at its end.
C17_MessagesAppendOnly ==
    [][ \A id \in ThreadIds(threads) \cap ThreadIds(threads') :
            IsPrefix(MessageIdsOf(threads[FindThread(threads, id)]),
                     MessageIdsOf(threads'[FindThread(threads', id)]))
      ]_vars

\* The threads of a list that belong to a document other than doc: threads
\* the plugin created or loaded carry the document they were made for (the
\* remote's own pushed thread carries whatever the remote sent)
ForeignThreads(ths, doc) ==
    {k \in DOMAIN ths : ths[k].id # RemoteThreadId /\ ths[k].documentId # doc}

\* C18: switching the active document never mixes documents: when a
\* setActiveDocument completes, the thread set holds only threads of the
\* active document and the Anchor Index is built from it, and no step writes
\* a thread of one document into the persisted record of another document.
C18_NoDocumentMixing ==
    [][ /\ \A i \in Slots :
              SetActiveDocumentLoaded(i) =>
                  /\ ForeignThreads(threads', activeFile') = {}
                  /\ anchorIndex' = build(threads')
        /\ \A d \in Docs :
              persisted'[d] # persisted[d] => ForeignThreads(persisted'[d], d) = {}
      ]_vars

\* The thread ids the index's map holds
IndexedIds(idx, ths) == {ths[i].id : i \in idx.map} \cup {g.id : g \in idx.gone}

\* C19: the Anchor Index never diverges from the thread list: it maps exactly
\* the thread ids of the list and its intervals are the current anchor
\* offsets of the list's threads.
C19_IndexMatchesThreads ==
    /\ IndexedIds(anchorIndex, threads) = ThreadIds(threads)
    /\ anchorIndex.tree = IntervalsOf({threads[i] : i \in DOMAIN threads})

\* The anchor's offsets are in range and name exactly its text in the document
ExactMatch(anchor, document) ==
    /\ document # <<>>
    /\ 0 <= anchor.startOffset /\ anchor.startOffset < anchor.endOffset
    /\ anchor.endOffset <= Len(document)
    /\ Slice(document, anchor.startOffset, anchor.endOffset) = anchor.anchorText

\* C20: for a non-empty document and an anchor whose in-range offsets hold
\* exactly its text, resolveAnchor returns those offsets with method 'exact',
\* whatever other occurrences the document holds and whatever the section
\* heading is; re-anchoring leaves such an anchor as it is.
C20_ExactPath ==
    [][ \A ok \in BOOLEAN :
            ReanchorThreads(ok) =>
                \A i \in DOMAIN threads :
                    ExactMatch(threads[i].anchor, text[activeFile]) =>
                        /\ resolveAnchor(threads[i].anchor, text[activeFile])
                             = [method |-> "exact",
                                startOffset |-> threads[i].anchor.startOffset,
                                endOffset |-> threads[i].anchor.endOffset]
                        /\ threads'[i].anchor = threads[i].anchor
      ]_vars

\* reanchorThreads has resolved an anchor with a section heading that ends
\* at the document's end and whose text also occurs earlier in the document
C20_Witness ==
    /\ ret.op = "reanchorThreads"
    /\ threads # <<>>
    /\ ExactMatch(threads[1].anchor, text[activeFile])
    /\ threads[1].anchor.endOffset = Len(text[activeFile])
    /\ threads[1].anchor.sectionHeading # NoHeading
    /\ \E k \in 0..Len(text[activeFile]) :
            /\ k # threads[1].anchor.startOffset
            /\ OccursAt(threads[1].anchor.anchorText, text[activeFile], k)

\* The offsets at which txt occurs in the document
Occurrences(txt, document) == {o \in 0..Len(document) : OccursAt(txt, document, o)}

\* The anchor the sidecar of a.md holds
StoredAnchor == persisted["a.md"][1].anchor

\* C21: when the exact-offset check fails and the non-empty anchorText
\* occurs in the document, resolveAnchor returns method 'text-search' with an
\* occurrence that minimizes the distance to the anchor's startOffset, and
\* endOffset = startOffset + len(anchorText); re-anchoring gives the thread
\* these offsets.
C21_TextSearchClosest ==
    [][ \A ok \in BOOLEAN :
            ReanchorThreads(ok) =>
                \A i \in DOMAIN threads :
                    LET a == threads[i].anchor
                        d == text[activeFile]
                        occ == Occurrences(a.anchorText, d)
                        r == resolveAnchor(a, d)
                    IN  (~ExactMatch(a, d) /\ a.anchorText # <<>> /\ occ # {}) =>
                            /\ r.method = "text-search"
                            /\ r.startOffset \in occ
                            /\ \A o \in occ :
                                  (IF r.startOffset >= a.startOffset
                                   THEN r.startOffset - a.startOffset
                                   ELSE a.startOffset - r.startOffset)
                                  <= (IF o >= a.startOffset THEN o - a.startOffset
                                      ELSE a.startOffset - o)
                            /\ r.endOffset = r.startOffset + Len(a.anchorText)
                            /\ threads'[i].anchor.startOffset = r.startOffset
                            /\ threads'[i].anchor.endOffset = r.endOffset
      ]_vars

\* reanchorThreads has moved a stale anchor (its write did not reach the
\* sidecar, which still holds the stale offsets) to an occurrence of its
\* text that is not the first one in the document
C21_Witness ==
    /\ ret.op = "reanchorThreads"
    /\ threads # <<>> /\ persisted["a.md"] # <<>>
    /\ ~ExactMatch(StoredAnchor, text["a.md"])
    /\ StoredAnchor.anchorText = threads[1].anchor.anchorText
    /\ threads[1].anchor.startOffset \in Occurrences(StoredAnchor.anchorText, text["a.md"])
    /\ \E o \in Occurrences(StoredAnchor.anchorText, text["a.md"]) :
            o < threads[1].anchor.startOffset
    /\ StoredAnchor.anchorText # <<>>

\* The end of the section a heading opens in the document: the next heading
\* of equal or higher level after it, or the end of the document
SectionEnd(document, sectionHeading) ==
    LET headingIdx == IndexOf(document, sectionHeading)
        afterHeading == Slice(document, headingIdx + Len(sectionHeading), Len(document))
        nextIdx == NextHeadingIndex(afterHeading, headingLevel(sectionHeading))
    IN  IF nextIdx # -1 THEN headingIdx + Len(sectionHeading) + nextIdx
        ELSE Len(document)

\* txt at offset o lies inside the section of the heading
InSection(o, txt, document, sectionHeading) ==
    /\ IndexOf(document, sectionHeading) # -1
    /\ IndexOf(document, sectionHeading) <= o
    /\ o + Len(txt) <= SectionEnd(document, sectionHeading)

\* C22: when the exact-offset check fails, the anchor's sectionHeading is
\* present in the document and anchorText occurs both inside that heading's
\* section and inside another heading's section, resolveAnchor returns an
\* occurrence inside the recorded heading's section, whatever the stale
\* startOffset is.
C22_HeadingTieBreak ==
    [][ \A ok \in BOOLEAN :
            ReanchorThreads(ok) =>
                \A i \in DOMAIN threads :
                    LET a == threads[i].anchor
                        d == text[activeFile]
                        occ == Occurrences(a.anchorText, d)
                        r == resolveAnchor(a, d)
                    IN  ( /\ ~ExactMatch(a, d)
                          /\ a.anchorText # <<>>
                          /\ a.sectionHeading # NoHeading
                          /\ \E o \in occ : InSection(o, a.anchorText, d, a.sectionHeading)
                          /\ \E o \in occ, h \in Headings :
                                /\ InSection(o, a.anchorText, d, h)
                                /\ ~InSection(o, a.anchorText, d, a.sectionHeading) )
                        => /\ r.method # "none"
                           /\ InSection(r.startOffset, a.anchorText, d, a.sectionHeading)
      ]_vars

\* C23: resolveAnchor is total and sound: for every anchor and document
\* (the empty document, negative, reversed and out-of-range offsets among
\* them) the result is not-found or a range with 0 <= startOffset <=
\* endOffset <= len(document) that holds exactly anchorText, and it is
\* not-found whenever anchorText occurs nowhere; re-anchoring moves the
\* thread to the range found and leaves it alone otherwise.
C23_ResolveSound ==
    [][ \A ok \in BOOLEAN :
            ReanchorThreads(ok) =>
                \A i \in DOMAIN threads :
                    LET a == threads[i].anchor
                        d == text[activeFile]
                        r == resolveAnchor(a, d)
                    IN  /\ \/ r = NotFound
                           \/ /\ r.method \in {"exact", "text-search", "heading-fallback"}
                              /\ 0 <= r.startOffset /\ r.startOffset <= r.endOffset
                              /\ r.endOffset <= Len(d)
                              /\ Slice(d, r.startOffset, r.endOffset) = a.anchorText
                        /\ Occurrences(a.anchorText, d) = {} => r = NotFound
                        /\ d = <<>> => r = NotFound
                        /\ IF r = NotFound THEN threads'[i].anchor = a
                           ELSE /\ threads'[i].anchor.startOffset = r.startOffset
                                /\ threads'[i].anchor.endOffset = r.endOffset
      ]_vars

\* reanchorThreads has resolved a stored anchor whose offsets were reversed,
\* negative and beyond the document's end to a range that holds its text
C23_Witness ==
    /\ ret.op = "reanchorThreads"
    /\ threads # <<>> /\ persisted["a.md"] # <<>>
    /\ StoredAnchor.startOffset > Len(text["a.md"])
    /\ StoredAnchor.endOffset < 0
    /\ threads[1].anchor # StoredAnchor
    /\ ExactMatch(threads[1].anchor, text["a.md"])

\* C24: an anchor with empty anchorText never resolves: resolveAnchor returns
\* not-found for every document, offsets and sectionHeading, a heading that
\* occurs in the document included, so re-anchoring leaves such a thread's
\* anchor as it was.
C24_EmptyTextNeverResolves ==
    [][ \A ok \in BOOLEAN :
            ReanchorThreads(ok) =>
                \A i \in DOMAIN threads :
                    threads[i].anchor.anchorText = <<>> =>
                        /\ resolveAnchor(threads[i].anchor, text[activeFile]) = NotFound
                        /\ threads'[i].anchor = threads[i].anchor
      ]_vars

\* The thread objects the index's map holds: those of the thread array and
\* those no longer in it
MapThreads(ths, idx) == {ths[p] : p \in idx.map} \cup idx.gone

\* C25: for every anchor [s,e) in the index with s >= changedTo, after
\* applyOffsetShift(changedFrom, changedTo, insertedLength) the anchor is
\* [s+delta, e+delta) with delta = insertedLength - (changedTo -
\* changedFrom), both offsets are non-negative, and a point query at every
\* offset inside the shifted range returns that thread, with the shifted
\* offsets.
C25_ShiftCorrect ==
    [][ \A i \in Slots :
          LET c == calls[i]
              delta == c.span[3] - (c.span[2] - c.span[1])
          IN  (c.op = "acceptSuggestion" /\ c.pc = "modify" /\ c.ok
                 /\ \E saveOk \in BOOLEAN : AcceptSuggestionModified(i, saveOk)) =>
                  \A iv \in anchorIndex.tree :
                      iv[1] >= c.span[2] =>
                          /\ <<iv[1] + delta, iv[2] + delta, iv[3]>> \in anchorIndex'.tree
                          /\ iv[1] + delta >= 0 /\ iv[2] + delta >= 0
                          /\ \A o \in (iv[1] + delta)..(iv[2] + delta - 1) :
                                /\ iv[3] \in query(anchorIndex', o)
                                /\ \E t \in MapThreads(threads', anchorIndex') :
                                      /\ t.id = iv[3]
                                      /\ t.anchor.startOffset = iv[1] + delta
                                      /\ t.anchor.endOffset = iv[2] + delta
      ]_vars

\* acceptSuggestion has shifted the index by a delta other than 0 and the
\* index holds, at its shifted place, the anchor of another thread that
\* started at or after the end of the replaced span
C25_Witness ==
    \E i \in Slots :
        LET c == calls[i]
            delta == c.span[3] - (c.span[2] - c.span[1])
        IN  /\ c.op = "acceptSuggestion" /\ c.pc = "save"
            /\ delta # 0
            /\ \E iv \in anchorIndex.tree :
                  /\ iv[3] # c.tid
                  /\ iv[1] - delta >= c.span[2]
                  /\ iv[3] \in query(anchorIndex, iv[1])
                  /\ \E j \in DOMAIN threads :
                        /\ threads[j].id = iv[3]
                        /\ threads[j].anchor.startOffset = iv[1]
                        /\ threads[j].anchor.endOffset = iv[2]
                        /\ ExactMatch(threads[j].anchor, text[activeFile])

\* The promise of a request has been resolved or rejected
Settled(req) == req.state \in {"resolved", "rejected"}

\* The bookkeeping of request r: pending exactly while it is in the map with
\* its timeout set; settled by exactly one call of resolve or reject, out of
\* the map, its timeout gone
RequestConsistent(w, r) ==
    LET req == w.requests[r]
    IN  /\ req.state = "unsent" => r \notin w.pendingRequests /\ ~req.timer /\ req.settled = 0
        /\ req.state = "pending" => r \in w.pendingRequests /\ req.timer /\ req.settled = 0
        /\ Settled(req) =>
              /\ r \notin w.pendingRequests /\ ~req.timer /\ req.settled = 1
              /\ req.by \in {"response", "error", "timeout", "disconnect", "not-connected"}
              /\ req.state = "resolved" <=> req.by = "response"

\* C26: every request of the WebSocket client is settled exactly once: by the
\* server's message with its requestId (resolved, or rejected for an error
\* message), by its 30-second timeout or by disconnect(); a request issued
\* while the socket is not open is rejected at once; an unsettled request
\* keeps its timeout pending; once settled a request is out of the map and
\* no later message, timer or disconnect changes it.
C26_SettledOnce ==
    [][ \A r \in Requests :
            /\ RequestConsistent(wsb', r)
            /\ Settled(wsb.requests[r]) => wsb'.requests[r] = wsb.requests[r]
            /\ (WsSendRequest(r) /\ (wsb.ws = 0 \/ wsb.readyState[wsb.ws] # "OPEN")) =>
                  wsb'.requests[r].state = "rejected" /\ wsb'.requests[r].by = "not-connected"
            /\ (WsSendRequest(r) /\ wsb.ws # 0 /\ wsb.readyState[wsb.ws] = "OPEN") =>
                  wsb'.requests[r].state = "pending"
            /\ (WsDisconnect /\ wsb.requests[r].state = "pending") =>
                  wsb'.requests[r].state = "rejected" /\ wsb'.requests[r].by = "disconnect"
            /\ (WsRequestTimeout(r) /\ wsb.requests[r].state = "pending") =>
                  wsb'.requests[r].state = "rejected" /\ wsb'.requests[r].by = "timeout"
            /\ \A s \in Sockets :
                  /\ (WsMessage(s, r, "response") /\ wsb.requests[r].state = "pending") =>
                        wsb'.requests[r].state = "resolved"
                  /\ (WsMessage(s, r, "error") /\ wsb.requests[r].state = "pending") =>
                        wsb'.requests[r].state = "rejected" /\ wsb'.requests[r].by = "error"
      ]_vars

\* One request was resolved by its response and another rejected by
\* disconnect(), and the client is connected again, so that the server can
\* still send messages that carry their ids
C26_Witness ==
    /\ \E r \in Requests : wsb.requests[r].by = "response"
    /\ \E r \in Requests : wsb.requests[r].by = "disconnect"
    /\ wsb.ws # 0 /\ wsb.readyState[wsb.ws] = "OPEN"

\* C27: the reconnect timers the client sets have the delays 1s, 2s, 4s, 8s,
\* 16s and then 30s: the first one after a successful open (or after
\* construction) has 1s, each later one min(2 x the previous one, 30s); an
\* open resets the next delay to 1s.
C27_Backoff ==
    [][ /\ \A t \in Timers :
              (wsb.timers[t] = 0 /\ wsb'.timers[t] # 0) =>
                  /\ wsb'.timers[t] = IF wsb.lastDelay = 0 THEN INITIAL_RECONNECT_MS
                                      ELSE Min(2 * wsb.lastDelay, MAX_RECONNECT_MS)
                  /\ wsb'.timers[t] \in {INITIAL_RECONNECT_MS * k : k \in {1, 2, 4, 8, 16}}
                                        \cup {MAX_RECONNECT_MS}
                  /\ wsb'.lastDelay = wsb'.timers[t]
        /\ \A s \in Sockets :
              WsOpen(s) => wsb'.reconnectMs = INITIAL_RECONNECT_MS /\ wsb'.lastDelay = 0
      ]_vars

\* A reconnect timer of 30s is pending after one of 30s or 16s, and the next
\* one will have 30s again
C27_Witness ==
    /\ wsb.lastDelay = MAX_RECONNECT_MS
    /\ wsb.reconnectMs = MAX_RECONNECT_MS
    /\ wsb.reconnectTimer # 0
    /\ wsb.timers[wsb.reconnectTimer] = MAX_RECONNECT_MS

\* C28: after disconnect() the status is 'disconnected', and until connect()
\* is called again no reconnect timer is pending and no new socket is
\* created, whether disconnect() was called while connected, while a
\* reconnect timer was pending or while a connection attempt was in progress.
C28_NoReconnectAfterDisconnect ==
    [][ /\ (~wsb.afterDisconnect /\ wsb'.afterDisconnect) =>
              wsb'.connectionStatus = "disconnected"
        /\ wsb'.afterDisconnect =>
              /\ \A t \in Timers : wsb'.timers[t] = 0
              /\ \A s \in Sockets :
                    wsb'.readyState[s] = "CONNECTING" => wsb.readyState[s] = "CONNECTING"
      ]_vars

\* C29: within one drain cycle, a failed forward of the head entry
\* increments that entry's retryCount by exactly one and ends the cycle: the
\* drain forwards no other entry and is no longer running after the step.
C29_FailureEndsCycle ==
    [][ (drain.pc = "fwd" /\ drain.inOutbox /\ DrainSettled(FALSE)) =>
            /\ \/ outbox' = [outbox EXCEPT ![1].retryCount = @ + 1]
               \/ outbox' = Tail(outbox) /\ outbox[1].retryCount + 1 >= MAX_RETRY_COUNT
            /\ evt'.sent = {}
            /\ drain' = IdleDrain
            /\ draining' = FALSE
      ]_vars

\* The step in which call i of a local mutating operation goes on after its
\* `await this.storage.saveImmediate(...)`
SavedStep(i) ==
    \/ CreateThreadSaved(i)
    \/ AddMessageSaved(i)
    \/ StatusSaved(i)
    \/ RejectSuggestionSaved(i)
    \/ AcceptSuggestionSaved(i)

\* C30: for every local mutating operation, its sidecar write has completed
\* before its local callback fires and before a forward of it to the remote
\* starts: the write is issued by the call's first step with the operation's
\* change in it; the callback, the live forward and the outbox entry come
\* only from the step after the awaited write, and only when the write
\* succeeded.
C30_WriteBeforeNotifyAndForward ==
    [][ /\ \A rc \in evt'.sent :
              rc.src = "live" =>
                  \E i \in Slots :
                      /\ SavedStep(i)
                      /\ calls[i].op = rc.type /\ calls[i].tid = rc.tid /\ calls[i].mid = rc.mid
                      /\ calls[i].pc = "save" /\ calls[i].ok
        /\ \A i \in Slots :
              (SavedStep(i) /\ (evt'.cbs # {} \/ evt'.sent # {} \/ outbox' # outbox)) =>
                  calls[i].ok
        /\ Len(outbox') > Len(outbox) =>
              \E i \in Slots :
                  /\ calls[i].op \in MutatingOps
                  /\ (calls[i].pc = "save" /\ calls[i].ok) \/ calls[i].pc = "fwd"
        /\ \A i \in Slots :
              (calls[i].op = "idle" /\ calls'[i].pc = "save" /\ calls'[i].ok) =>
                  /\ calls'[i].op \in MutatingOps
                  /\ calls'[i].tid \in ThreadIds(persisted'[activeFile'])
                  /\ calls'[i].op = "addMessage" =>
                        \E t \in DOMAIN persisted'[activeFile'] :
                            /\ persisted'[activeFile'][t].id = calls'[i].tid
                            /\ calls'[i].mid \in
                                 {persisted'[activeFile'][t].messages[m].id :
                                     m \in DOMAIN persisted'[activeFile'][t].messages}
      ]_vars

\* createThread has gone on after its write: the new thread is in the
\* sidecar, its callback has fired and its forward to the remote has started
C30_Witness ==
    \E i \in Slots :
        /\ calls[i].op = "createThread" /\ calls[i].pc = "fwd"
        /\ evt.cbs = {<<"onNewThread", calls[i].tid, NoId>>}
        /\ evt.sent = {RemoteCall("createThread", calls[i].tid, NoId, "live")}
        /\ activeFile # NoFile
        /\ calls[i].tid \in ThreadIds(persisted[activeFile])

\* C31: when the sidecar write or the document write of a mutating operation
\* throws, the error propagates to the caller and the operation starts no
\* call of the remote, appends no outbox entry and fires no local callback.
C31_LocalWriteFailureIsFatal ==
    [][ \A i \in Slots :
            LET c == calls[i]
                failedSave == SavedStep(i) /\ ~c.ok
                failedModify == /\ c.op = "acceptSuggestion" /\ c.pc = "modify" /\ ~c.ok
                                /\ \E saveOk \in BOOLEAN : AcceptSuggestionModified(i, saveOk)
            IN  (failedSave \/ failedModify) =>
                    /\ ret'.op = c.op /\ ~ret'.ok /\ ret'.err = "LocalWrite"
                    /\ ret'.tid = c.tid /\ ret'.mid = c.mid
                    /\ ~ret'.called /\ ~ret'.fwd /\ ret'.enq = 0
                    /\ evt'.cbs = {} /\ evt'.sent = {}
                    /\ outbox' = outbox
                    /\ cbCount' = cbCount
                    /\ \A j \in Slots : ~(calls'[j].op = c.op /\ calls'[j].pc = "fwd"
                                          /\ ~(\E k \in Slots : calls[k] = calls'[j]))
      ]_vars

\* acceptSuggestion has thrown because its document write failed: the
\* suggestion is still pending, the outbox is empty, nothing was sent
C31_Witness ==
    /\ ret.op = "acceptSuggestion" /\ ~ret.ok /\ ret.err = "LocalWrite"
    /\ StatusOf(threads, ret.tid, ret.mid) = "pending"
    /\ outbox = <<>>
    /\ evt.cbs = {} /\ evt.sent = {}

\* The step of call i in which acceptSuggestion applies its offset shift
ShiftStep(i) ==
    /\ calls[i].op = "acceptSuggestion" /\ calls[i].pc = "modify" /\ calls[i].ok
    /\ \E saveOk \in BOOLEAN : AcceptSuggestionModified(i, saveOk)

\* An anchor that partially overlaps the edit: it reaches past changedFrom,
\* starts before changedTo and does not lie inside [changedFrom, changedTo]
PartialOverlap(a, changeFrom, changeTo) ==
    /\ a.endOffset > changeFrom
    /\ a.startOffset < changeTo
    /\ ~(a.startOffset >= changeFrom /\ a.endOffset <= changeTo)

\* C32: applyOffsetShift keeps startOffset <= endOffset for every anchor; an
\* anchor lying entirely inside [changedFrom, changedTo] keeps both offsets;
\* an anchor ending at or before changedFrom keeps both offsets; an anchor
\* that partially overlaps the edit keeps its startOffset and has its
\* endOffset adjusted by delta, not below startOffset; and when delta is 0
\* no anchor changes.
C32_ShiftCases ==
    [][ \A i \in Slots :
            ShiftStep(i) =>
                LET changeFrom == calls[i].span[1]
                    changeTo == calls[i].span[2]
                    delta == calls[i].span[3] - (changeTo - changeFrom)
                IN  \A j \in DOMAIN threads :
                        LET a == threads[j].anchor
                            b == threads'[j].anchor
                        IN  /\ a.startOffset <= a.endOffset => b.startOffset <= b.endOffset
                            /\ delta = 0 => b = a
                            /\ (a.startOffset >= changeFrom /\ a.endOffset <= changeTo) => b = a
                            /\ a.endOffset <= changeFrom => b = a
                            /\ PartialOverlap(a, changeFrom, changeTo) =>
                                  /\ b.startOffset = a.startOffset
                                  /\ b.endOffset = Max(a.startOffset, a.endOffset + delta)
      ]_vars

\* C32 (amended): as C32, for the anchors that start before changedTo: an
\* anchor that starts at or after changedTo (an empty anchor at changedTo
\* among them) has both offsets moved by delta instead.
C32_ShiftCasesAmended ==
    [][ \A i \in Slots :
            ShiftStep(i) =>
                LET changeFrom == calls[i].span[1]
                    changeTo == calls[i].span[2]
                    delta == calls[i].span[3] - (changeTo - changeFrom)
                IN  \A j \in DOMAIN threads :
                        LET a == threads[j].anchor
                            b == threads'[j].anchor
                        IN  /\ a.startOffset <= a.endOffset => b.startOffset <= b.endOffset
                            /\ delta = 0 => b = a
                            /\ (a.startOffset < changeTo /\ a.startOffset >= changeFrom
                                  /\ a.endOffset <= changeTo) => b = a
                            /\ (a.startOffset < changeTo /\ a.endOffset <= changeFrom) => b = a
                            /\ PartialOverlap(a, changeFrom, changeTo) =>
                                  /\ b.startOffset = a.startOffset
                                  /\ b.endOffset = Max(a.startOffset, a.endOffset + delta)
                            /\ a.startOffset >= changeTo =>
                                  /\ b.startOffset = a.startOffset + delta
                                  /\ b.endOffset = a.endOffset + delta
      ]_vars

\* acceptSuggestion has shifted the anchors and its sidecar write failed, so
\* that the sidecar still holds the old ones: the second thread overlapped
\* the edit, kept its start and had its end moved
C32_Witness ==
    \E i \in Slots :
        /\ calls[i].op = "acceptSuggestion" /\ calls[i].pc = "save" /\ ~calls[i].ok
        /\ Len(threads) = 2 /\ Len(persisted["a.md"]) = 2
        /\ PartialOverlap(persisted["a.md"][2].anchor, calls[i].span[1], calls[i].span[2])
        /\ threads[2].anchor.startOffset = persisted["a.md"][2].anchor.startOffset
        /\ threads[2].anchor.endOffset # persisted["a.md"][2].anchor.endOffset

\* The step in which the forward of a drain settles
DrainSettledStep ==
    drain.pc = "fwd" /\ (ByDrain(evt'.acked) \cup ByDrain(evt'.failed)) # {}

\* C33: at most one drain loop runs at a time: a drain forwards an entry
\* while another forward of a drain is in flight only in the step that
\* settles that one. An entry enqueued is appended behind the entries
\* already queued. An entry leaves the outbox only by clearOutbox or in the
\* step that settles its own forward, the forward having succeeded or its
\* failures having reached the cap: the entry a drain removes is the entry
\* it forwarded.
C33_OwnRemoval ==
    [][ /\ (drain.pc = "fwd" /\ ByDrain(evt'.sent) # {}) => DrainSettledStep
        /\ Len(outbox') > Len(outbox) =>
              /\ Len(outbox') = Len(outbox) + 1
              /\ SubSeq(outbox', 1, Len(outbox)) = outbox
        /\ (Len(outbox') < Len(outbox) /\ outbox' # <<>>) =>
              /\ DrainSettledStep
              /\ drain.inOutbox
              /\ Payload(outbox[1]) = Payload(drain.entry)
              /\ \/ ByDrain(evt'.acked) # {}
                 \/ RetryExhausted(outbox[1].retryCount + 1)
        /\ (DrainSettledStep /\ ~drain.inOutbox) => outbox' = outbox
      ]_vars

WriteStep(i) ==
    /\ calls[i].op = "acceptSuggestion" /\ calls[i].pc = "read"
    /\ AcceptSuggestionRead(i, TRUE, TRUE)
    /\ ret' = NoRet

\* Another call has written the replacement of the same suggestion and has
\* not yet gone on
WrittenByOther(i) ==
    \E j \in Slots \ {i} :
        /\ calls[j].op = "acceptSuggestion" /\ calls[j].pc = "modify" /\ calls[j].ok
        /\ calls[j].tid = calls[i].tid /\ calls[j].mid = calls[i].mid

\* C35: the replacement of a pending suggestion is written to the document
\* at most once and its offset shift is applied at most once, also when two
\* acceptSuggestion calls for it overlap: no call writes the replacement of
\* a suggestion that is accepted or that another call has written, and no
\* call shifts the anchors for a suggestion that is accepted.
C35_AcceptOnce ==
    [][ \A i \in Slots :
          /\ WriteStep(i) =>
                /\ StatusOf(threads, calls[i].tid, calls[i].mid) # "accepted"
                /\ ~WrittenByOther(i)
          /\ ShiftStep(i) => StatusOf(threads, calls[i].tid, calls[i].mid) # "accepted"
      ]_vars

\* C36: when no operation is in progress the thread set getThreads()
\* returns is the set last persisted for the active document, in particular
\* when a mutating operation has returned because its persistence write
\* threw: the thread set is then what the record holds, as before the call.
C36_ThreadsArePersisted ==
    [][ (/\ activeFile' # NoFile
         /\ \A i \in Slots : calls'[i].op = "idle"
         /\ ret'.op \in MutatingOps /\ ~ret'.ok /\ ret'.err = "LocalWrite")
            => threads' = persisted'[activeFile']
      ]_vars

\* The re-anchoring of pushed thread tid is in progress: its document read
\* has not resolved
Reanchoring(tid) == \E i \in Slots : calls[i].op = "reanchor" /\ calls[i].tid = tid

\* C37: when the remote pushes a thread and afterwards a message for it,
\* the message ends in the thread's message list, also when the message is
\* pushed while the thread's re-anchoring is in progress: the handler of
\* such a message does not drop it for want of the thread.
C37_MessageAfterThread ==
    [][ \A tid \in AllThreadIds, ok \in BOOLEAN :
          \A message \in PushedMessages(tid) :
              (/\ Reanchoring(tid)
               /\ started' = started + 1
               /\ HandleIncomingMessage(tid, message, ok))
                  => MergeMessage(tid, message, ok).kind # "NoThread"
      ]_vars

\* C38: every thread of the active thread set and of a document's record
\* has the documentId of that document: a pushed thread whose documentId
\* names another document than the active one is not merged into the thread
\* set and not written to the active document's record.
C38_PushedThreadOfOtherDocument ==
    [][ \A i \in Slots :
          (/\ calls[i].op = "reanchor"
           /\ \E readOk \in BOOLEAN, ok \in BOOLEAN : ReanchorAndAddThread(i, readOk, ok)
           /\ activeFile # NoFile
           /\ calls[i].ths[1].documentId # activeFile)
              => (threads' = threads /\ persisted' = persisted)
      ]_vars

\* C39: connectionStatus is 'connected' only while the backend holds an
\* open socket, so that a request issued then is sent: whenever the status
\* is 'connected', this.ws is a socket that has opened and whose close event
\* has not been dispatched, under any interleaving of connect(),
\* disconnect(), the events of current and earlier sockets and the timers.
C39_ConnectedHoldsSocket ==
    wsb.connectionStatus = "connected"
        => (wsb.ws # 0 /\ wsb.readyState[wsb.ws] \in {"OPEN", "CLOSING"})

\* C40: the promise returned by a save() call resolves in the end, also
\* when a later save() or saveImmediate() for the document has cleared its
\* debounce timer before it fired.
C40_SaveResolves ==
    \A k \in Saves :
        (sto.promise[k] = "pending" /\ sto.timer[k] = "cleared")
            ~> (sto.promise[k] = "resolved")

=============================================================================
